---- MODULE Spec2Model ----
(***************************************************************************)
(* Task health monitor (elevva/task-monitor-llm).                          *)
(*                                                                         *)
(* The components are modelled each with its own specification:           *)
(*   ExecSpec      db_executor.execute_all_queries over a bounded task      *)
(*                 table (typed catalog queries, then the catch-all)       *)
(*   AnalyzerSpec  results_analyzer.analyze_results, in memory and after a  *)
(*                 json_utils save_json / load_json round trip             *)
(*   LoopSpec      the tool-calling loop of claude_analyzer_enhanced        *)
(*                 (analyze_with_claude and analyze_single_error)          *)
(*   MainSpec      run_health_check.main with the functions of its own file *)
(*   GroupSpec     claude_analyzer.analyze_with_claude                     *)
(*   CliSpec       analyze_error.main                                      *)
(*   GrouperSpec   error_grouper                                           *)
(*   ReportSpec    html_reporter                                           *)
(*   ReplaySpec    the files of a fresh run and of a replay                *)
(*   GitHubSpec    github_client                                           *)
(*   CommonTypeSpec  results_analyzer._build_issue for the catch-all       *)
(* A Python dict that is iterated in insertion order (results) is a         *)
(* sequence of entries carrying their key in the field "name".             *)
(***************************************************************************)
EXTENDS Integers, Sequences, FiniteSets, TLC

VARIABLES
    \* ---- db_executor.execute_all_queries
    db,                  \* the task table, its rows in primary-key order
    failing,             \* names of the queries whose execution raises in this run
    epc,                 \* position in execute_all_queries
    connection,          \* "none" | "open" | "closed"
    cursor,              \* "none" | "open" | "closed"
    qi,                  \* index of the next typed query in QUERIES
    results,             \* the results dict being built
    processed_task_ids,  \* set of ids seen in typed query rows
    all_error_rows,      \* the rows the catch-all query returned
    raised,              \* names of the queries whose execution raised
    executed,            \* names of the queries executed so far, in order
    \* ---- results_analyzer.analyze_results and json_utils
    apc,                 \* position in the analyse / save / reload / analyse run
    in_results,          \* the in-memory result set handed to the analyzer
    analysis,            \* analyze_results(in_results)
    json_file,           \* what save_json wrote
    reloaded,            \* what load_json returned
    replay_analysis,     \* analyze_results(reloaded)
    \* ---- claude_analyzer_enhanced tool loop
    lpc,                 \* position in the analysis function
    fn,                  \* "analyze_with_claude" | "analyze_single_error"
    env,                 \* which credentials the environment holds
    script,              \* the content the backend sends when it asks for tools
    iteration,           \* the loop counter
    messages,            \* the conversation
    response,            \* the latest model response
    model_calls,         \* number of client.messages.create calls made
    all_tool_use,        \* every response so far had stop_reason "tool_use"
    ret,                 \* what the function returned
    \* ---- run_health_check.main
    mpc,                 \* position in main
    argv,                \* the flags of the command line
    api_key,             \* ANTHROPIC_API_KEY is set
    anthropic_installed, \* import anthropic succeeds
    db_password,         \* DB_PASSWORD is set and not empty
    db_up,               \* with the password, connect_db() and the queries return
    db_results,          \* what execute_all_queries returns on a fresh run
    results_file,        \* the results file named by --from-json
    claude_file,         \* the diagnosis file next to it
    m_results,           \* main's variable results
    claude_analysis,     \* main's variable claude_analysis
    m_analysis,          \* main's variable analysis
    events,              \* the effects of the run, in order
    llm_args,            \* the arguments analyze_with_claude was called with
    \* ---- claude_analyzer.analyze_with_claude (group-based client)
    gpc,                 \* position in analyze_with_claude
    g_api_key,           \* ANTHROPIC_API_KEY is set
    g_anthropic_installed,  \* import anthropic succeeds
    g_summary,           \* summary_data is not empty
    error_groups_for_analysis,  \* group keys of the critical, high and medium issues
    uncategorized_groups,       \* group keys of the uncategorized issues
    regular_answer,      \* how the backend answers the regular-groups call
    uncategorized_answer,\* how the backend answers the uncategorized-groups call
    all_analysis,        \* the merged diagnosis mapping
    g_calls,             \* the sub-calls made, in order
    g_ret,               \* what analyze_with_claude returned
    \* ---- analyze_error.main (single-error CLI)
    cpc,                 \* position in main
    c_args,              \* --task-id and --pattern are given
    c_env,               \* which credentials the environment holds
    c_errors,            \* number of errors the pattern search finds
    c_model,             \* the model calls of analyze_single_error answer or raise
    c_result,            \* main's variable result
    c_status,            \* the exit status of the process
    \* ---- error_grouper
    kpc,                 \* which grouper function has been applied
    k_tasks,             \* the list of task rows handed to the grouper
    k_out,               \* what the function returned, or that it raised
    \* ---- diagnosis keys and html_reporter
    rpc,                 \* position: keys built, diagnosis received, report rendered
    r_issues,            \* the issues of the analysis, with bucket and error groups
    r_keys,              \* the group keys under which diagnoses are requested
    r_claude,            \* the diagnosis record handed to the reporter, or None
    r_cards,             \* the error-group cards of the report
    \* ---- a call of one function
    fpc,                 \* the call is pending or has returned
    f_args,              \* its arguments
    f_ret                \* its return value

evars == <<db, failing, epc, connection, cursor, qi, results, processed_task_ids,
          all_error_rows, raised, executed>>
avars == <<apc, in_results, analysis, json_file, reloaded, replay_analysis>>
lvars == <<lpc, fn, env, script, iteration, messages, response, model_calls, all_tool_use, ret>>
mvars == <<mpc, argv, api_key, anthropic_installed, db_password, db_up, db_results,
           results_file, claude_file, m_results, claude_analysis, m_analysis, events, llm_args>>
gvars == <<gpc, g_api_key, g_anthropic_installed, g_summary, error_groups_for_analysis,
           uncategorized_groups, regular_answer, uncategorized_answer, all_analysis, g_calls, g_ret>>
cvars == <<cpc, c_args, c_env, c_errors, c_model, c_result, c_status>>
kvars == <<kpc, k_tasks, k_out>>
rvars == <<rpc, r_issues, r_keys, r_claude, r_cards>>
fvars == <<fpc, f_args, f_ret>>
xvars == <<mvars, gvars, cvars, kvars, rvars, fvars>>
vars == <<evars, avars, lvars, xvars>>

\* Python None, as a returned value
None == [py |-> "None"]

Min(a, b) == IF a < b THEN a ELSE b
Max(a, b) == IF a > b THEN a ELSE b

\* s[:n]
Take(s, n) == SubSeq(s, 1, Min(n, Len(s)))

Range(s) == {s[i] : i \in DOMAIN s}

(***************************************************************************)
(* Bounds of the model.                                                    *)
(***************************************************************************)
\* rows in the task table
MaxTasks == 2
\* task ids are 0..MaxId
MaxId == 1
\* LIMIT 50 / LIMIT 100 of the typed queries, scaled 1 : 2 so that a table of
\* MaxTasks rows can exceed a typed LIMIT
TypedLimit == 1
WmsLimit == 2
\* LIMIT 200 of the catch-all query
CatchAllLimit == 200

(***************************************************************************)
(* The task table.                                                         *)
(***************************************************************************)
TaskIds == 0..MaxId
TaskTypes == {"WMS"}
TaskSubTypes == {"CREATION", "STOCK"}

\* status, error_count and overdue, where overdue stands for
\* DATE_ADD(last_run, INTERVAL strategy + 15 MINUTE) < now(): a task both kinds
\* of query match, one only the catch-all matches, and two only the typed
\* queries match (a task no query matches is in no result)
TaskHealths ==
    {<<"ACTIVE", 11, TRUE>>, <<"ACTIVE", 11, FALSE>>, <<"ACTIVE", 10, TRUE>>,
     <<"PROCESSING", 11, TRUE>>}

\* the values of last_run: two tasks may have run at the same time
LastRuns == {1, 2}

Tasks ==
    {[id |-> i, type |-> ty, sub_type |-> st, status |-> h[1], overdue |-> h[3],
      error_count |-> h[2], last_run |-> l] :
        i \in TaskIds, ty \in TaskTypes, st \in TaskSubTypes, h \in TaskHealths,
        l \in LastRuns}

\* id is the primary key
Databases ==
    {s \in UNION {[1..n -> Tasks] : n \in 0..MaxTasks} :
        \A i, j \in DOMAIN s : i < j => s[i].id < s[j].id}

\* the queries whose execution may raise: the typed queries that match tasks
\* of the table, and the catch-all
MayRaise == {"WMS", "CREATION", "UNCATEGORIZED_ERRORS"}

(***************************************************************************)
(* queries.py: the catalog.  A query's SQL is its WHERE filter ("*" for a   *)
(* column the query does not filter on) and its LIMIT.                     *)
(***************************************************************************)
Q(name, description, type, sub_type, limit) ==
    [name |-> name, description |-> description, type |-> type,
     sub_type |-> sub_type, limit |-> limit]

QUERIES == <<
    Q("TOKEN", "Token renewal tasks stuck", "TOKEN", "*", TypedLimit),
    Q("POLLING", "Marketplace polling tasks stuck", "POLLING", "*", TypedLimit),
    Q("UPDATE_ITEMS_FORCE", "Forced item update tasks stuck", "UPDATE_ITEMS_FORCE", "*", TypedLimit),
    Q("WEBHOOKS", "Webhook processing tasks stuck", "WEBHOOKS", "*", TypedLimit),
    Q("WMS", "WMS integration tasks with errors", "WMS", "*", WmsLimit),
    Q("CHECK_STOCK", "Stock verification tasks stuck", "CHECK_STOCK", "*", TypedLimit),
    Q("CREATION", "Order creation tasks stuck", "*", "CREATION", TypedLimit),
    Q("LIVERPOOL_CONFIRM", "Liverpool order confirmation failures", "LIVERPOOL", "CONFIRM_ORDER", TypedLimit),
    Q("ODOO", "Odoo integration tasks stuck", "ODOO", "*", TypedLimit),
    Q("MELI_REVIEW_UPDATE", "MercadoLibre review update tasks stuck", "MELI_REVIEW_UPDATE", "*", TypedLimit),
    Q("ITEM_UPDATE", "Item update tasks stuck", "*", "ITEM_UPDATE", TypedLimit),
    Q("ORDER_UPDATE", "Order update tasks stuck", "*", "ORDER_UPDATE", TypedLimit),
    Q("STATS", "Statistics tasks stuck", "STATS", "*", TypedLimit),
    Q("FILES", "File processing tasks stuck", "FILES", "*", TypedLimit),
    Q("INTERNAL_SHIPMENT", "Internal shipment tasks stuck", "INTERNAL_SHIPMENT", "*", TypedLimit),
    Q("ORDER_UPDATE_REFUND", "Order refund update tasks stuck", "*", "ORDER_UPDATE_REFUND", TypedLimit),
    Q("ZIPNOVA", "Zipnova shipping tasks stuck", "ZIPNOVA", "*", TypedLimit)
>>

UNCATEGORIZED_ERRORS_QUERY ==
    [name |-> "UNCATEGORIZED_ERRORS",
     description |-> "Active tasks with errors (>10) not captured by specific queries - suggests new monitoring queries",
     limit |-> CatchAllLimit]

TypedNames == {QUERIES[i].name : i \in DOMAIN QUERIES}

\* the WHERE clause of a typed query
MatchesTyped(q, t) ==
    /\ q.type = "*" \/ t.type = q.type
    /\ q.sub_type = "*" \/ t.sub_type = q.sub_type
    /\ t.status \in {"ACTIVE", "PROCESSING"}
    /\ t.overdue

\* the WHERE clause of the catch-all query
MatchesCatchAll(t) ==
    /\ t.status = "ACTIVE"
    /\ t.error_count > 10

\* the selected columns: only WMS and the catch-all select error_count
Row(name, t) ==
    IF name \in {"WMS", "UNCATEGORIZED_ERRORS"}
    THEN [id |-> t.id, type |-> t.type, sub_type |-> t.sub_type,
          status |-> t.status, error_count |-> t.error_count]
    ELSE [id |-> t.id, type |-> t.type, sub_type |-> t.sub_type,
          status |-> t.status]

Rows(name, ts) == [i \in DOMAIN ts |-> Row(name, ts[i])]

\* the orders in which the database may return the rows s of a typed query:
\* every order in which no row is before a row of an earlier last_run; the
\* order of rows with equal last_run is the database's choice, made anew for
\* each query
OrderTyped(s) ==
    {[i \in DOMAIN s |-> s[p[i]]] :
        p \in {q \in Permutations(DOMAIN s) :
                  \A i, j \in DOMAIN s :
                      i < j => s[q[i]].last_run <= s[q[j]].last_run}}

\* cursor.execute(query['sql']); cursor.fetchall(): the row lists the database
\* may answer with (WHERE ..., ORDER BY last_run ASC, LIMIT n)
FetchTyped(q, table) ==
    {Rows(q.name, Take(o, q.limit)) :
        o \in OrderTyped(SelectSeq(table, LAMBDA t : MatchesTyped(q, t)))}

\* the type and sub_type strings of the catalog and of the task table, in the
\* order in which the database compares strings
StringsInOrder == <<
    "CHECK_STOCK", "CONFIRM_ORDER", "CREATION", "FILES", "INTERNAL_SHIPMENT",
    "ITEM_UPDATE", "LIVERPOOL", "MELI_REVIEW_UPDATE", "ODOO", "ORDER_UPDATE",
    "ORDER_UPDATE_REFUND", "POLLING", "STATS", "STOCK", "TOKEN",
    "UPDATE_ITEMS_FORCE", "WEBHOOKS", "WMS", "ZIPNOVA" >>

\* ORDER BY t.type, t.sub_type, t.error_count DESC: a string comes before
\* another when it is the smaller one; the rank of a string is its place
\* in that order
StringRank(s) == CHOOSE i \in DOMAIN StringsInOrder : StringsInOrder[i] = s

CatchAllBefore(a, b) ==
    \/ StringRank(a.type) < StringRank(b.type)
    \/ /\ a.type = b.type
       /\ \/ StringRank(a.sub_type) < StringRank(b.sub_type)
          \/ a.sub_type = b.sub_type /\ a.error_count > b.error_count

\* the orders in which the database may return the rows s: every order in
\* which no row is before a row that ORDER BY puts before it; the order of
\* rows with equal type, sub_type and error_count is the database's choice
OrderCatchAll(s) ==
    {[i \in DOMAIN s |-> s[p[i]]] :
        p \in {q \in Permutations(DOMAIN s) :
                  \A i, j \in DOMAIN s :
                      i < j => ~CatchAllBefore(s[q[j]], s[q[i]])}}

\* cursor.execute(UNCATEGORIZED_ERRORS_QUERY['sql']); cursor.fetchall():
\* the row lists the database may answer with
FetchCatchAll(table) ==
    {Rows(UNCATEGORIZED_ERRORS_QUERY.name, Take(o, UNCATEGORIZED_ERRORS_QUERY.limit)) :
        o \in OrderCatchAll(SelectSeq(table, MatchesCatchAll))}

(***************************************************************************)
(* db_executor.execute_all_queries                                         *)
(***************************************************************************)
\* Python truthiness of row.get('id')
Truthy(id) == id # 0

\* for row in rows: if row.get('id'): processed_task_ids.add(row['id'])
TrackIds(seen, rows) == seen \cup {rows[i].id : i \in {j \in DOMAIN rows : Truthy(rows[j].id)}}

TypedSuccess(q, rows) ==
    [name |-> q.name, count |-> Len(rows), data |-> rows, description |-> q.description]

TypedFailure(q) ==
    [name |-> q.name, count |-> 0, data |-> <<>>, description |-> q.description,
     error |-> "error"]

\* [row for row in all_error_rows if row.get('id') not in processed_task_ids]
FilterProcessed(fetched, seen) ==
    SelectSeq(fetched, LAMBDA row : row.id \notin seen)

CatchAllSuccess(fetched, seen) ==
    LET uncategorized_rows == FilterProcessed(fetched, seen)
    IN  [name |-> UNCATEGORIZED_ERRORS_QUERY.name,
         count |-> Len(uncategorized_rows),
         data |-> uncategorized_rows,
         description |-> UNCATEGORIZED_ERRORS_QUERY.description,
         is_catchall |-> TRUE,
         total_before_filter |-> Len(fetched),
         filtered_count |-> Len(fetched) - Len(uncategorized_rows)]

CatchAllFailure ==
    [name |-> UNCATEGORIZED_ERRORS_QUERY.name, count |-> 0, data |-> <<>>,
     description |-> UNCATEGORIZED_ERRORS_QUERY.description,
     error |-> "error", is_catchall |-> TRUE]

\* results[name], for a name that has an entry
Entry(res, name) == res[CHOOSE i \in DOMAIN res : res[i].name = name]

HasEntry(res, name) == \E i \in DOMAIN res : res[i].name = name

ExecIdle ==
    /\ db = <<>>
    /\ failing = {}
    /\ epc = "idle"
    /\ connection = "none"
    /\ cursor = "none"
    /\ qi = 0
    /\ results = <<>>
    /\ processed_task_ids = {}
    /\ all_error_rows = <<>>
    /\ raised = {}
    /\ executed = <<>>

\* connection = get_db_connection(); if not connection: return results
GetConnection ==
    /\ epc = "start"
    /\ \/ connection' = "open" /\ epc' = "cursor"
       \/ connection' = "none" /\ epc' = "returned"
    /\ UNCHANGED <<db, failing, cursor, qi, results, processed_task_ids, all_error_rows, raised,
                   executed>>

\* cursor = connection.cursor(dictionary=True), outside the try block
CreateCursor ==
    /\ epc = "cursor"
    /\ \/ cursor' = "open" /\ epc' = "typed" /\ qi' = 1
       \/ cursor' = "none" /\ epc' = "raised" /\ qi' = qi
    /\ UNCHANGED <<db, failing, connection, results, processed_task_ids, all_error_rows, raised,
                   executed>>

\* mutant: the try block is around the whole loop, so a query that raises
\* ends the loop of typed queries
ExecuteTypedAborts ==
    /\ epc = "typed"
    /\ LET q == QUERIES[qi]
       IN  IF q.name \notin failing
           THEN \E rows \in FetchTyped(q, db) :
                    /\ processed_task_ids' = TrackIds(processed_task_ids, rows)
                    /\ results' = Append(results, TypedSuccess(q, rows))
                    /\ raised' = raised
                    /\ epc' = IF qi = Len(QUERIES) THEN "catchall" ELSE "typed"
           ELSE /\ results' = Append(results, TypedFailure(q))
                /\ raised' = raised \cup {q.name}
                /\ processed_task_ids' = processed_task_ids
                /\ epc' = "catchall"
    /\ executed' = Append(executed, QUERIES[qi].name)
    /\ qi' = qi + 1
    /\ UNCHANGED <<db, failing, connection, cursor, all_error_rows>>

\* one iteration of: for query in QUERIES
ExecuteTyped ==
    /\ epc = "typed"
    /\ LET q == QUERIES[qi]
       IN  IF q.name \notin failing
           THEN \E rows \in FetchTyped(q, db) :
                    /\ processed_task_ids' = TrackIds(processed_task_ids, rows)
                    /\ results' = Append(results, TypedSuccess(q, rows))
                    /\ raised' = raised
           ELSE /\ results' = Append(results, TypedFailure(q))
                /\ raised' = raised \cup {q.name}
                /\ processed_task_ids' = processed_task_ids
    /\ executed' = Append(executed, QUERIES[qi].name)
    /\ qi' = qi + 1
    /\ epc' = IF qi = Len(QUERIES) THEN "catchall" ELSE "typed"
    /\ UNCHANGED <<db, failing, connection, cursor, all_error_rows>>

\* the UNCATEGORIZED_ERRORS block
ExecuteCatchAll ==
    /\ epc = "catchall"
    /\ IF UNCATEGORIZED_ERRORS_QUERY.name \notin failing
       THEN /\ all_error_rows' \in FetchCatchAll(db)
            /\ results' = Append(results, CatchAllSuccess(all_error_rows', processed_task_ids))
            /\ raised' = raised
       ELSE /\ all_error_rows' = all_error_rows
            /\ results' = Append(results, CatchAllFailure)
            /\ raised' = raised \cup {UNCATEGORIZED_ERRORS_QUERY.name}
    /\ executed' = Append(executed, UNCATEGORIZED_ERRORS_QUERY.name)
    /\ epc' = "finally"
    /\ UNCHANGED <<db, failing, connection, cursor, qi, processed_task_ids>>

\* finally: cursor.close(); connection.close(); then return results
CloseAndReturn ==
    /\ epc = "finally"
    /\ cursor' = "closed"
    /\ connection' = "closed"
    /\ epc' = "returned"
    /\ UNCHANGED <<db, failing, qi, results, processed_task_ids, all_error_rows, raised,
                   executed>>

(***************************************************************************)
(* error_grouper.  An error message is NULL, the empty string, or the text *)
(*     "failed " lead number " now"                                        *)
(* where lead is a word, optional blanks and an optional mark, and number  *)
(* is a run of digits: "failed order #4477 now", "failed 74 now",          *)
(* "failed id=7 now", "failed x44444 now".  The regular expressions of     *)
(* normalize_error_message are applied to the parts of that text.          *)
(***************************************************************************)
Digits == {"4", "7"}

MaxDigits == 5

Numbers == UNION {[1..n -> Digits] : n \in 1..MaxDigits}

Lead(word, space1, mark, space2) ==
    [word |-> word, space1 |-> space1, mark |-> mark, space2 |-> space2]

Leads ==
    { Lead("", "", "", ""),            \* failed 4477 now
      Lead("order", " ", "", ""),      \* failed order 4477 now
      Lead("order", " ", "#", ""),     \* failed order #4477 now
      Lead("task", "", ":", " "),      \* failed task: 4477 now
      Lead("seller_id", " ", "", ""),  \* failed seller_id 4477 now
      Lead("ticket", " ", "#", ""),    \* failed ticket #4477 now
      Lead("id", "", "=", ""),         \* failed id=4477 now
      Lead("code", " ", "", ""),       \* failed code 4477 now
      Lead("x", "", "", "") }          \* failed x4477 now

\* error_message NULL
NoMessage == [kind |-> "null"]

TextMessage(lead, number) == [kind |-> "str", lead |-> lead, number |-> number]

EmptyMessage == [kind |-> "str", text |-> ""]

RECURSIVE Join(_)
Join(chars) == IF chars = <<>> THEN "" ELSE Head(chars) \o Join(Tail(chars))

LeadText(l) == l.word \o l.space1 \o l.mark \o l.space2

\* the string a message stands for
Text(m) ==
    IF m = EmptyMessage THEN ""
    ELSE "failed " \o LeadText(m.lead) \o Join(m.number) \o " now"

Keywords == {"order", "pedido", "task", "id", "seller", "seller_id"}

\* the text while it is rewritten: id holds the digits or their placeholder
Rewriting(m) ==
    [lead |-> LeadText(m.lead), id |-> Join(m.number), replaced |-> FALSE]

\* \b(order|pedido|task|id|seller|seller_id)\s*[#:]?\s*(\d+)\b -> \1 {ID}
ReplaceKeywordIds(m, r) ==
    IF ~r.replaced /\ m.lead.word \in Keywords /\ m.lead.mark \in {"", "#", ":"}
    THEN [lead |-> m.lead.word \o " ", id |-> "{ID}", replaced |-> TRUE]
    ELSE r

\* #(\d+) -> #{ID}
ReplaceHashIds(m, r) ==
    IF ~r.replaced /\ m.lead.mark = "#" /\ m.lead.space2 = ""
    THEN [r EXCEPT !.id = "{ID}", !.replaced = TRUE]
    ELSE r

\* \bid\s*=\s*(\d+) -> id={ID}
ReplaceIdEquals(m, r) ==
    IF ~r.replaced /\ m.lead.word = "id" /\ m.lead.mark = "="
    THEN [lead |-> "id=", id |-> "{ID}", replaced |-> TRUE]
    ELSE r

\* the digits do not continue a word
Standalone(l) == ~(l.word # "" /\ l.space1 = "" /\ l.mark = "" /\ l.space2 = "")

\* a normalizer that leaves long numbers alone
KeepLongNumbers(m, r) == r

\* \b\d{5,}\b -> {ID}
ReplaceLongNumbers(m, r) ==
    IF ~r.replaced /\ Len(m.number) >= 5 /\ Standalone(m.lead)
    THEN [r EXCEPT !.id = "{ID}", !.replaced = TRUE]
    ELSE r

\* The UUID, timestamp, date, IP and URL expressions match none of these
\* texts (no hyphen, dot or scheme), and strip() finds no outer blanks.
normalize_error_message(m) ==
    IF m = NoMessage \/ m = EmptyMessage
    THEN "No error message"
    ELSE LET r == ReplaceLongNumbers(m,
                      ReplaceIdEquals(m,
                          ReplaceHashIds(m,
                              ReplaceKeywordIds(m, Rewriting(m)))))
         IN  "failed " \o r.lead \o r.id \o " now"

\* A number is written by its decimal text, which is what str() of it gives;
\* "" is a column that is NULL or a key that is absent.  The data of a task is
\* NULL, a JSON text or a dict:
\*   JsonData("number", "12")   '{"seller_id": 12, "x": 1}'
\*   JsonData("quoted", "12")   '{"seller_id": "12"}'
\*   JsonData("absent", "")     '{"x": 1}'
\*   DictData("30")             {'seller_id': 30}
\*   DictData("")               {}
NoData == [kind |-> "null"]

JsonData(form, seller) == [kind |-> "str", form |-> form, seller_id |-> seller]

DictData(seller) == [kind |-> "dict", seller_id |-> seller]

\* truthiness of a number or of a missing value
TruthyNumber(text) == text \notin {"", "0"}

\* if task.get('seller_id'): seller_ids.add(str(task['seller_id']))
SellerOfColumn(task) ==
    IF TruthyNumber(task.seller_id) THEN {task.seller_id} ELSE {}

\* re.search(r'["\']?seller_id["\']?\s*[:"]\s*(\d+)', data) on a JSON text:
\* the digits must follow the colon, a quoted value is not found;
\* data.get('seller_id') on a dict
SellerOfData(data) ==
    IF data.kind = "null" THEN {}
    ELSE IF data.kind = "str"
    THEN IF data.form = "number" THEN {data.seller_id} ELSE {}
    ELSE IF TruthyNumber(data.seller_id) THEN {data.seller_id} ELSE {}

\* the set of the seller ids of the tasks
extract_seller_ids(tasks) ==
    UNION {SellerOfColumn(tasks[i]) \cup SellerOfData(tasks[i].data) : i \in DOMAIN tasks}

\* the seller ids of the model in the order of their texts: "30" < "4"
SellerIdsInOrder == <<"12", "30", "4", "7">>

\* sorted(list(seller_ids))
RECURSIVE SortedList(_)
SortedList(ids) ==
    IF ids = {} THEN <<>>
    ELSE LET least == CHOOSE i \in DOMAIN SellerIdsInOrder :
                          /\ SellerIdsInOrder[i] \in ids
                          /\ \A j \in 1..(i - 1) : SellerIdsInOrder[j] \notin ids
         IN  <<SellerIdsInOrder[least]>> \o SortedList(ids \ {SellerIdsInOrder[least]})

\* str(value) of a last_run or of a data value: the text of the value
StrOf(value) == [kind |-> "str", of |-> value]

TaskIdsLimit == 10

RECURSIVE Distinct(_)
\* the keys of a dict in insertion order, given the keys in arrival order
Distinct(keys) ==
    IF keys = <<>> THEN <<>>
    ELSE LET front == Distinct(SubSeq(keys, 1, Len(keys) - 1))
             last == keys[Len(keys)]
         IN  IF \E i \in 1..Len(front) : front[i] = last
             THEN front
             ELSE Append(front, last)

GroupOf(t) == [exception |-> t.exception,
               pattern |-> normalize_error_message(t.error_message)]

RECURSIVE ByException(_, _)
\* grouped.items() flattened: the outer dict keeps the exceptions in the order
\* they first arrive, each inner dict its patterns in the order they arrive
ByException(exceptions, pairs) ==
    IF exceptions = <<>> THEN <<>>
    ELSE SelectSeq(pairs, LAMBDA g : g.exception = Head(exceptions))
             \o ByException(Tail(exceptions), pairs)

group_errors_by_pattern(tasks) ==
    LET pairs == Distinct([i \in 1..Len(tasks) |-> GroupOf(tasks[i])])
        exceptions == Distinct([i \in 1..Len(pairs) |-> pairs[i].exception])
        ordered == ByException(exceptions, pairs)
        group(g) ==
            LET all_tasks == SelectSeq(tasks, LAMBDA t : GroupOf(t) = g)
                first == SubSeq(all_tasks, 1, Min(Len(all_tasks), TaskIdsLimit))
            IN  [exception |-> g.exception,
                 pattern |-> g.pattern,
                 count |-> Len(all_tasks),
                 example_task |-> all_tasks[1],
                 seller_ids |-> SortedList(extract_seller_ids(all_tasks)),
                 task_ids |-> [i \in 1..Len(first) |-> first[i].id]]
    IN  [i \in 1..Len(ordered) |-> group(ordered[i])]

RECURSIVE InsertByCount(_, _)
\* list.sort(key=count, reverse=True) is stable: equal counts keep their order
InsertByCount(sorted, g) ==
    IF sorted = <<>> THEN <<g>>
    ELSE IF Head(sorted).count >= g.count
         THEN <<Head(sorted)>> \o InsertByCount(Tail(sorted), g)
         ELSE <<g>> \o sorted

RECURSIVE SortByCount(_)
SortByCount(groups) ==
    IF groups = <<>> THEN <<>>
    ELSE InsertByCount(SortByCount(SubSeq(groups, 1, Len(groups) - 1)),
                       groups[Len(groups)])

Raised == [py |-> "TypeError"]

\* example_task.get('error_message', '')[:300] raises TypeError on NULL
ExampleRaises(grouped) ==
    \E i \in 1..Len(grouped) : grouped[i].example_task.error_message = NoMessage

\* the patterns and messages of the model are shorter than the [:50] and
\* [:300] cuts
create_error_groups_for_issue(data) ==
    LET grouped == group_errors_by_pattern(data)
        error_group(g) ==
            [group_key |-> g.exception \o "::" \o g.pattern,
             exception |-> g.exception,
             pattern |-> g.pattern,
             original_message |-> Text(g.example_task.error_message),
             count |-> g.count,
             seller_ids |-> g.seller_ids,
             task_ids |-> g.task_ids,
             example_task |-> [id |-> g.example_task.id,
                               last_run |-> StrOf(g.example_task.last_run),
                               exception |-> g.exception,
                               error_message |-> Text(g.example_task.error_message),
                               data |-> StrOf(g.example_task.data)]]
    IN  IF ExampleRaises(grouped)
        THEN Raised
        ELSE [error_groups |->
                 SortByCount([i \in 1..Len(grouped) |-> error_group(grouped[i])])]

Exceptions == {"TimeoutError", "ValueError"}

\* the messages of the task lists
ListMessages ==
    { NoMessage,
      EmptyMessage,
      TextMessage(Lead("", "", "", ""), <<"4">>),
      TextMessage(Lead("order", " ", "", ""), <<"4">>),
      TextMessage(Lead("order", " ", "", ""), <<"7", "4">>) }

TaskKinds == [exception : Exceptions, error_message : ListMessages]

\* where the seller of a row is written: nowhere, in the seller_id column, or
\* in data
Seller(column, data) == [seller_id |-> column, data |-> data]

NoSeller == Seller("", NoData)

\* the sellers of the rows of a list, repeated every four rows: data as JSON
\* text, and data as a dict
SellerLayouts ==
    { <<Seller("7", JsonData("number", "12")), Seller("0", JsonData("quoted", "12")),
        NoSeller, Seller("", JsonData("absent", ""))>>,
      <<Seller("", DictData("30")), Seller("", DictData("4")),
        Seller("7", DictData("")), Seller("7", DictData("7"))>> }

MaxMixed == 2

MaxRepeated == 11

\* rows numbered as the query returns them; the rows of these lists carry
\* no last_run ('' is what task.get('last_run', '') gives)
WithIds(kinds, sellers) ==
    [i \in 1..Len(kinds) |-> [id |-> i,
                              exception |-> kinds[i].exception,
                              error_message |-> kinds[i].error_message,
                              last_run |-> "",
                              seller_id |-> sellers[((i - 1) % 4) + 1].seller_id,
                              data |-> sellers[((i - 1) % 4) + 1].data]]

\* a mixed start followed by a run of like rows, long enough to pass the
\* limit of ten task ids
TaskLists ==
    { WithIds(mixed \o [i \in 1..n |-> k], sellers) :
        mixed \in UNION {[1..m -> TaskKinds] : m \in 0..MaxMixed},
        n \in 0..MaxRepeated,
        k \in TaskKinds,
        sellers \in SellerLayouts }

\* two rows of one exception whose messages differ in the number only
TaskPairs ==
    { WithIds(<<[exception |-> "ValueError", error_message |-> TextMessage(l, a)],
                [exception |-> "ValueError", error_message |-> TextMessage(l, b)]>>,
              <<NoSeller, NoSeller, NoSeller, NoSeller>>) :
        l \in Leads, a \in Numbers, b \in Numbers }

\* a call that returned, with its value
Value(value) == [py |-> "returned", value |-> value]

GrouperIdle ==
    /\ kpc = "idle"
    /\ k_tasks = <<>>
    /\ k_out = None

GroupErrorsByPattern ==
    /\ kpc = "start"
    /\ kpc' = "grouped"
    /\ k_out' = Value(group_errors_by_pattern(k_tasks))
    /\ UNCHANGED k_tasks

CreateErrorGroupsForIssue ==
    /\ kpc = "start"
    /\ kpc' = "created"
    /\ k_out' = LET created == create_error_groups_for_issue(k_tasks)
                 IN  IF created = Raised THEN Raised ELSE Value(created.error_groups)
    /\ UNCHANGED k_tasks

(***************************************************************************)
(* Result sets handed to the analyzer.  A last_run value is a datetime      *)
(* (in memory), a string (after a JSON round trip) or NULL; hours is its    *)
(* age, the time from last_run to datetime.now(), in whole hours.          *)
(***************************************************************************)
\* largest row count of one query result
MaxCount == 11

\* row counts on both sides of the limits of the priority rules (1, 2, 5, 10)
Counts == {0, 1, 2, 4, 5, 10} \cup (11..MaxCount)

\* ages of the oldest row: now, exactly 15 days, 15 days 12 hours, 16 days, 20 days
FirstAges == {0, 360, 372, 384, 480}

DateTime(h) == [kind |-> "datetime", hours |-> h]
Null == [kind |-> "null", hours |-> 0]

FirstLastRuns == {DateTime(h) : h \in FirstAges} \cup {Null}

\* error_message of a row: a text, or NULL
Message == TextMessage(Lead("order", " ", "", ""), <<"4">>)

FirstMessages == {Message, NoMessage}

\* rows in last_run ASC order: the first row is the oldest; the message of
\* the first and of the last row is a text or NULL
MakeRows(n, first, msg, last) ==
    [i \in 1..n |-> [id |-> i,
                     last_run |-> IF i = 1 THEN first ELSE DateTime(0),
                     exception |-> "ValueError",
                     error_message |-> IF i = 1 THEN msg
                                       ELSE IF i = n THEN last ELSE Message,
                     seller_id |-> "",
                     data |-> JsonData("number", "12")]]

AnalyzerNames == {"TOKEN", "WMS", "LIVERPOOL_CONFIRM"}

TypedEntries ==
    {[name |-> n, count |-> c, data |-> MakeRows(c, lr, msg, last), description |-> "typed"] :
        n \in AnalyzerNames, c \in Counts, lr \in FirstLastRuns,
        msg \in FirstMessages, last \in FirstMessages}

ErrorEntries ==
    {[name |-> n, count |-> 0, data |-> <<>>, description |-> "typed", error |-> "error"] :
        n \in AnalyzerNames}

CatchAllEntries ==
    {[name |-> "UNCATEGORIZED_ERRORS", count |-> c, data |-> MakeRows(c, lr, msg, last),
      description |-> "catch-all", is_catchall |-> TRUE,
      total_before_filter |-> c + f, filtered_count |-> f] :
        c \in Counts, lr \in FirstLastRuns, msg \in FirstMessages,
        last \in FirstMessages, f \in {0, 1}}

ResultEntries == TypedEntries \cup ErrorEntries \cup CatchAllEntries

\* a results dict has one entry per key; the catch-all entry, if any, is last
ResultSets ==
    {<<e>> : e \in ResultEntries}
    \cup {p \in TypedEntries \X ResultEntries : p[1].name # p[2].name}

(***************************************************************************)
(* json_utils.save_json / load_json                                        *)
(***************************************************************************)
\* json.dump(..., default=str): a datetime is written as the string str(value),
\* None as null; numbers, strings and booleans are written as they are
JsonValue(v) ==
    CASE v.kind = "datetime" -> [json |-> "string", hours |-> v.hours]
      [] v.kind = "str" -> [json |-> "string", hours |-> v.hours]
      [] OTHER -> [json |-> "null", hours |-> 0]

JsonRow(row) == [row EXCEPT !.last_run = JsonValue(row.last_run)]

JsonEntry(e) == [e EXCEPT !.data = [i \in DOMAIN e.data |-> JsonRow(e.data[i])]]

save_json(data) == [i \in DOMAIN data |-> JsonEntry(data[i])]

\* json.load: a JSON string becomes a str, null becomes None
PyValue(j) ==
    IF j.json = "string" THEN [kind |-> "str", hours |-> j.hours] ELSE Null

PyRow(row) == [row EXCEPT !.last_run = PyValue(row.last_run)]

PyEntry(e) == [e EXCEPT !.data = [i \in DOMAIN e.data |-> PyRow(e.data[i])]]

load_json(file) == [i \in DOMAIN file |-> PyEntry(file[i])]

(***************************************************************************)
(* results_analyzer.analyze_results                                        *)
(***************************************************************************)
EmptyAnalysis ==
    [critical |-> <<>>, high |-> <<>>, medium |-> <<>>, ok |-> <<>>, uncategorized |-> <<>>]

Buckets == {"critical", "high", "medium", "ok", "uncategorized"}

\* result.get('is_catchall')
IsCatchAll(result) == "is_catchall" \in DOMAIN result /\ result.is_catchall

\* (datetime.now() - last_run).days
days_ago(last_run) == last_run.hours \div 24

\* the very_old_tasks flag: data[0]['last_run'] is set, is a datetime, and
\* days_ago > 15
very_old_tasks(data) ==
    /\ Len(data) > 0
    /\ data[1].last_run.kind # "null"
    /\ data[1].last_run.kind = "datetime"
    /\ days_ago(data[1].last_run) > 15

\* mutant: the critical threshold is count >= 10
PriorityOffByOne(query_name, count, data) ==
    IF count >= 10 \/ very_old_tasks(data) THEN "critical"
    ELSE IF count >= 5 \/ query_name \in {"LIVERPOOL_CONFIRM", "WMS"} THEN "high"
    ELSE IF count >= 2 THEN "medium"
    ELSE "ok"

\* the if / elif chain that picks the bucket of a typed result with count > 0
Priority(query_name, count, data) ==
    IF count > 10 \/ very_old_tasks(data) THEN "critical"
    ELSE IF count >= 5 \/ query_name \in {"LIVERPOOL_CONFIRM", "WMS"} THEN "high"
    ELSE IF count >= 2 THEN "medium"
    ELSE "ok"

\* _build_issue, when it returns: the fields set from the result itself (the
\* error groups, seller ids and oldest_task derived from the rows are left out)
build_issue(result, is_uncategorized) ==
    LET base == [name |-> result.name, description |-> result.description,
                 count |-> result.count, data |-> Take(result.data, 5),
                 is_uncategorized |-> is_uncategorized]
    IN  IF is_uncategorized
        THEN [name |-> base.name, description |-> base.description,
              count |-> base.count, data |-> base.data,
              is_uncategorized |-> TRUE,
              total_before_filter |->
                  IF "total_before_filter" \in DOMAIN result THEN result.total_before_filter ELSE 0,
              filtered_count |->
                  IF "filtered_count" \in DOMAIN result THEN result.filtered_count ELSE 0]
        ELSE base

\* mutant: a result whose priority is ok is not appended to any bucket
AnalyzeOneDropsOk(acc, result) ==
    IF IsCatchAll(result)
    THEN IF result.count > 0
         THEN [acc EXCEPT !.uncategorized = Append(@, build_issue(result, TRUE))]
         ELSE acc
    ELSE IF result.count = 0
    THEN [acc EXCEPT !.ok = Append(@, [name |-> result.name,
                                       description |-> result.description,
                                       count |-> result.count])]
    ELSE IF Priority(result.name, result.count, result.data) = "ok"
    THEN acc
    ELSE [acc EXCEPT ![Priority(result.name, result.count, result.data)] =
                         Append(@, build_issue(result, FALSE))]

\* the body of: for query_name, result in results.items()
AnalyzeOne(acc, result) ==
    IF IsCatchAll(result)
    THEN IF result.count > 0
         THEN [acc EXCEPT !.uncategorized = Append(@, build_issue(result, TRUE))]
         ELSE acc
    ELSE IF result.count = 0
    THEN [acc EXCEPT !.ok = Append(@, [name |-> result.name,
                                       description |-> result.description,
                                       count |-> result.count])]
    ELSE [acc EXCEPT ![Priority(result.name, result.count, result.data)] =
                         Append(@, build_issue(result, FALSE))]

RECURSIVE AnalyzeFrom(_, _, _)
AnalyzeFrom(acc, res, i) ==
    IF i > Len(res) THEN acc ELSE AnalyzeFrom(AnalyzeOne(acc, res[i]), res, i + 1)

analyze_results(res) == AnalyzeFrom(EmptyAnalysis, res, 1)

\* the buckets in which the analysis lists an issue of that name
BucketsOf(an, name) == {b \in Buckets : \E i \in DOMAIN an[b] : an[b][i].name = name}

\* how many times the analysis lists an issue of that name
Occurrences(an, name) ==
    LET N(b) == Cardinality({i \in DOMAIN an[b] : an[b][i].name = name})
    IN  N("critical") + N("high") + N("medium") + N("ok") + N("uncategorized")

\* console_reporter: the names printed under HEALTHY CATEGORIES
ok_names(an) == [i \in DOMAIN an.ok |-> an.ok[i].name]

AnalyzerIdle ==
    /\ apc = "idle"
    /\ in_results = <<>>
    /\ analysis = EmptyAnalysis
    /\ json_file = <<>>
    /\ reloaded = <<>>
    /\ replay_analysis = EmptyAnalysis

\* the results are written with save_json
SaveJson ==
    /\ apc = "fresh"
    /\ json_file' = save_json(in_results)
    /\ apc' = "saved"
    /\ UNCHANGED <<in_results, analysis, reloaded, replay_analysis>>

\* _build_issue raises TypeError when create_error_groups_for_issue does (a
\* group whose first row has a NULL message), and when the oldest row has a
\* last_run and a NULL message (oldest.get('error_message', '')[:200])
BuildIssueRaises(result) ==
    /\ result.data # <<>>
    /\ \/ create_error_groups_for_issue(result.data) = Raised
       \/ /\ result.data[1].last_run.kind # "null"
          /\ result.data[1].error_message = NoMessage

\* analyze_results builds an issue for every result with count > 0
AnalyzeRaises(res) ==
    \E i \in DOMAIN res : res[i].count > 0 /\ BuildIssueRaises(res[i])

\* analyze_results on the results in memory
AnalyzeFresh ==
    /\ apc = "saved"
    /\ IF AnalyzeRaises(in_results)
       THEN apc' = "crashed" /\ analysis' = analysis
       ELSE apc' = "analyzed" /\ analysis' = analyze_results(in_results)
    /\ UNCHANGED <<in_results, json_file, reloaded, replay_analysis>>

\* the file is read back with load_json
LoadJson ==
    /\ apc = "analyzed"
    /\ reloaded' = load_json(json_file)
    /\ apc' = "loaded"
    /\ UNCHANGED <<in_results, analysis, json_file, replay_analysis>>

\* analyze_results on the reloaded results
AnalyzeReplay ==
    /\ apc = "loaded"
    /\ IF AnalyzeRaises(reloaded)
       THEN apc' = "crashed" /\ replay_analysis' = replay_analysis
       ELSE apc' = "done" /\ replay_analysis' = analyze_results(reloaded)
    /\ UNCHANGED <<in_results, analysis, json_file, reloaded>>

(***************************************************************************)
(* newrelic_client / github_client: the tool dispatchers.  A tool name is   *)
(* its prefix and the rest of the name; the input of a tool call is         *)
(* "valid", "missing_field" (a required key is absent) or "failing" (the     *)
(* remote call raises).                                                    *)
(***************************************************************************)
ToolName(prefix, op) == [prefix |-> prefix, op |-> op]

NewRelicOps == {"get_error_by_task_id", "get_errors_by_pattern", "get_error_stats"}

GitHubOps == {"get_file", "get_code_from_stack_trace", "get_code_context", "search_file"}

Success == [success |-> TRUE, data |-> "data"]

Failure(msg) == [success |-> FALSE, error |-> msg]

\* mutant: a required input field is read with .get(), so its absence does
\* not raise and the call is reported as a success
ClientCallIgnoresMissingField(known, op, input) ==
    IF op \in known
    THEN IF input = "failing" THEN Failure("remote call raised") ELSE Success
    ELSE Failure("Unknown tool")

\* the body of the try block, after the client was constructed
ClientCall(known, op, input) ==
    IF op \in known
    THEN IF input = "missing_field" THEN Failure("KeyError")
         ELSE IF input = "failing" THEN Failure("remote call raised")
         ELSE Success
    ELSE Failure("Unknown tool")

\* NewRelicClient() raises ValueError when a credential is missing
execute_newrelic_tool(tool_name, tool_input, e) ==
    IF ~e.newrelic THEN Failure("NEW_RELIC_API_KEY not provided")
    ELSE ClientCall(NewRelicOps, tool_name.op, tool_input)

\* GitHubClient() raises ValueError when the token is missing
execute_github_tool(tool_name, tool_input, e) ==
    IF ~e.github THEN Failure("GITHUB_TOKEN not provided")
    ELSE ClientCall(GitHubOps, tool_name.op, tool_input)

\* if tool_name.startswith("newrelic_") ... elif ... else
Dispatch(tool_name, tool_input, e) ==
    IF tool_name.prefix = "newrelic_" THEN execute_newrelic_tool(tool_name, tool_input, e)
    ELSE IF tool_name.prefix = "github_" THEN execute_github_tool(tool_name, tool_input, e)
    ELSE [error |-> "Unknown tool"]

(***************************************************************************)
(* The simulated LLM backend.                                              *)
(***************************************************************************)
\* tool_use blocks in one response
MaxToolBlocks == 2

TextKinds == {"json", "fenced_json", "garbage"}

ToolInputs == {"valid", "missing_field", "failing"}

\* the tool calls the simulated backend requests
ToolCalls ==
    {[name |-> ToolName("newrelic_", "get_error_by_task_id"), input |-> "valid"],
     [name |-> ToolName("newrelic_", "get_error_by_task_id"), input |-> "missing_field"],
     [name |-> ToolName("github_", "get_file"), input |-> "valid"],
     [name |-> ToolName("github_", "get_file"), input |-> "failing"],
     [name |-> ToolName("newrelic_", "no_such_tool"), input |-> "valid"],
     [name |-> ToolName("other_", "tool"), input |-> "valid"]}

TextBlock(k) == [type |-> "text", text |-> k]

ToolUseBlock(c) == [type |-> "tool_use", name |-> c.name, input |-> c.input]

ToolSeqs == UNION {[1..n -> {ToolUseBlock(c) : c \in ToolCalls}] : n \in 1..MaxToolBlocks}

\* what a response with stop_reason "tool_use" holds: an optional text block,
\* then at least one tool_use block
Scripts == ToolSeqs \cup {<<TextBlock(k)>> \o t : k \in {"json", "garbage"}, t \in ToolSeqs}

\* the blocks of the n-th response; every tool_use block has its own id
Content(blocks, n) ==
    [i \in DOMAIN blocks |->
        IF blocks[i].type = "tool_use"
        THEN [type |-> "tool_use", name |-> blocks[i].name, input |-> blocks[i].input,
              id |-> <<n, i>>]
        ELSE blocks[i]]

NoResponse == [stop_reason |-> "none", content |-> <<>>]

(***************************************************************************)
(* claude_analyzer_enhanced: analyze_with_claude and analyze_single_error   *)
(***************************************************************************)
max_iterations == 10

Environments ==
    [api_key : BOOLEAN, anthropic : BOOLEAN, newrelic : BOOLEAN, github : BOOLEAN,
     has_issues : BOOLEAN]

\* mutant: only the first tool_use block of a response is answered
ToolResultsOnlyFirst(content, i, e) ==
    LET uses == SelectSeq(content, LAMBDA b : b.type = "tool_use")
    IN  <<[type |-> "tool_result", tool_use_id |-> uses[1].id,
           content |-> Dispatch(uses[1].name, uses[1].input, e)]>>

\* for block in assistant_content: if block.type == "tool_use": ... append.
\* content is json.dumps(result), written as the object that text encodes
RECURSIVE ToolResults(_, _, _)
ToolResults(content, i, e) ==
    IF i > Len(content) THEN <<>>
    ELSE IF content[i].type = "tool_use"
    THEN <<[type |-> "tool_result", tool_use_id |-> content[i].id,
            content |-> Dispatch(content[i].name, content[i].input, e)]>>
         \o ToolResults(content, i + 1, e)
    ELSE ToolResults(content, i + 1, e)

\* response_text: the text blocks of the response, in order
RECURSIVE ResponseText(_, _)
ResponseText(content, i) ==
    IF i > Len(content) THEN <<>>
    ELSE IF content[i].type = "text"
    THEN <<content[i].text>> \o ResponseText(content, i + 1)
    ELSE ResponseText(content, i + 1)

\* json.loads(response_text.strip()) after the fence markers are stripped
ParsesAsJson(text) == Len(text) = 1 /\ text[1] \in {"json", "fenced_json"}

\* mutant: the loop condition is iteration <= max_iterations
LoopGuardOffByOne(resp, iter) == resp.stop_reason = "tool_use" /\ iter <= max_iterations

\* while response.stop_reason == "tool_use" and iteration < max_iterations
LoopGuard(resp, iter) == resp.stop_reason = "tool_use" /\ iter < max_iterations

\* tools advertised to the model
HasTools(e) == e.newrelic \/ e.github

LoopIdle ==
    /\ lpc = "idle"
    /\ fn = "none"
    /\ env = [api_key |-> FALSE, anthropic |-> FALSE, newrelic |-> FALSE, github |-> FALSE,
             has_issues |-> FALSE]
    /\ script = <<>>
    /\ iteration = 0
    /\ messages = <<>>
    /\ response = NoResponse
    /\ model_calls = 0
    /\ all_tool_use = TRUE
    /\ ret = None

\* the checks made before the first model call
Prelude ==
    /\ lpc = "start"
    /\ LET skip == IF fn = "analyze_with_claude"
                   THEN ~env.api_key \/ ~env.anthropic \/ ~env.has_issues
                   ELSE ~env.api_key \/ ~env.anthropic \/ ~env.newrelic
       IN  IF skip
           THEN /\ lpc' = "returned"
                /\ messages' = messages
           ELSE /\ lpc' = "call"
                /\ messages' = <<[role |-> "user", content |-> "prompt"]>>
    /\ UNCHANGED <<fn, env, script, iteration, response, model_calls, all_tool_use, ret>>

\* client.messages.create(...): the backend asks for tools, answers, or the call raises
ModelAnswers(n) ==
    \/ /\ \E sc \in Scripts :
            /\ script = <<>> \/ script = sc
            /\ script' = sc
            /\ response' = [stop_reason |-> "tool_use", content |-> Content(sc, n)]
       /\ all_tool_use' = all_tool_use
    \/ /\ \E k \in TextKinds :
            response' = [stop_reason |-> "end_turn", content |-> <<TextBlock(k)>>]
       /\ script' = script
       /\ all_tool_use' = FALSE

\* an exception of client.messages.create: analyze_with_claude catches it and
\* returns None, analyze_single_error lets it propagate
ModelRaises ==
    /\ all_tool_use' = FALSE
    /\ lpc' = IF fn = "analyze_with_claude" THEN "returned" ELSE "raised"
    /\ ret' = None
    /\ UNCHANGED <<script, response>>

\* the initial API call
InitialCall ==
    /\ lpc = "call"
    /\ model_calls' = model_calls + 1
    /\ \/ ModelAnswers(model_calls + 1) /\ lpc' = "loop" /\ ret' = ret
       \/ ModelRaises
    /\ UNCHANGED <<fn, env, iteration, messages>>

\* one iteration of the while loop: run the requested tools, append the
\* assistant message and the tool results, call the model again
ToolIteration ==
    /\ lpc = "loop"
    /\ LoopGuard(response, iteration)
    /\ iteration' = iteration + 1
    /\ messages' = messages \o
          <<[role |-> "assistant", content |-> response.content],
            [role |-> "user", content |-> ToolResults(response.content, 1, env)]>>
    /\ model_calls' = model_calls + 1
    /\ \/ ModelAnswers(model_calls + 1) /\ lpc' = "loop" /\ ret' = ret
       \/ ModelRaises
    /\ UNCHANGED <<fn, env>>

\* mutant: the analysis can be cut short while the model still asks for tools
FinishMidLoop ==
    /\ lpc = "loop"
    /\ LET response_text == ResponseText(response.content, 1)
       IN  ret' = IF fn = "analyze_with_claude"
                  THEN IF ParsesAsJson(response_text)
                       THEN [analysis |-> "parsed", tools_used |-> HasTools(env),
                             tool_iterations |-> iteration,
                             analysis_type |-> IF HasTools(env) THEN "enhanced_with_tools"
                                                                ELSE "basic"]
                       ELSE None
                  ELSE [task_id |-> "task", analysis |-> response_text,
                        tool_iterations |-> iteration]
    /\ lpc' = "returned"
    /\ UNCHANGED <<fn, env, script, iteration, messages, response, model_calls, all_tool_use>>

\* after the loop: extract the text, parse it, return
Finish ==
    /\ lpc = "loop"
    /\ ~LoopGuard(response, iteration)
    /\ LET response_text == ResponseText(response.content, 1)
       IN  ret' = IF fn = "analyze_with_claude"
                  THEN IF ParsesAsJson(response_text)
                       THEN [analysis |-> "parsed", tools_used |-> HasTools(env),
                             tool_iterations |-> iteration,
                             analysis_type |-> IF HasTools(env) THEN "enhanced_with_tools"
                                                                ELSE "basic"]
                       ELSE None
                  ELSE [task_id |-> "task", analysis |-> response_text,
                        tool_iterations |-> iteration]
    /\ lpc' = "returned"
    /\ UNCHANGED <<fn, env, script, iteration, messages, response, model_calls, all_tool_use>>

(***************************************************************************)
(* run_health_check.main, with the functions of run_health_check.py it      *)
(* calls: execute_all_queries, save_json, load_json, analyze_with_claude,   *)
(* analyze_results, print_console_report and generate_html_report.         *)
(***************************************************************************)

\* the rows of one query of a run of main: the oldest row first
MainRows(n, first, msg) ==
    [i \in 1..n |-> [id |-> i,
                     last_run |-> IF i = 1 THEN first ELSE DateTime(0),
                     error_message |-> IF i = 1 THEN msg ELSE Message]]

\* the entries execute_all_queries of run_health_check.py builds
MainEntries ==
    {[name |-> n, description |-> "typed", count |-> c, data |-> MainRows(c, lr, msg)] :
        n \in {"TOKEN", "WMS"}, c \in {0, 1, 2},
        lr \in {DateTime(0), DateTime(480), Null}, msg \in {Message, NoMessage}}
    \cup {[name |-> n, description |-> "typed", count |-> 0, data |-> <<>>,
           error |-> "error"] : n \in {"TOKEN", "WMS"}}

MainResultSets ==
    {<<e>> : e \in {x \in MainEntries : x.name = "TOKEN"}}
    \cup {p \in MainEntries \X MainEntries : p[1].name = "TOKEN" /\ p[2].name = "WMS"}

\* sys.argv: from_json is "no" (flag absent), "no_path" (the flag is the last
\* argument) or "path"
ArgVectors == [from_json : {"no", "no_path", "path"}, no_ai : BOOLEAN, console_only : BOOLEAN]

\* the state of a file on disk
\* the results file: absent, text that is not JSON, a path that cannot be
\* read as UTF-8 text (other bytes, a directory, no permission), or results
ResultsFiles == {"missing", "malformed", "unreadable", "valid"}
ClaudeFiles == {"missing", "unreadable", "valid"}

\* what a diagnosis holds: the query names it has an entry for
Diagnosis(names) == [analysis |-> names]

Names(res) == {res[i].name : i \in DOMAIN res}

\* summary_data of analyze_with_claude: the queries with count > 0
summary_data(res) == {res[i].name : i \in {j \in DOMAIN res : res[j].count > 0}}

\* first_task.get('last_run') is truthy: a datetime, or a non-empty string
HasLastRun(row) == row.last_run.kind # "null"

\* oldest.get('error_message', '')[:200] raises TypeError when the column is NULL
OldestTaskRaises(result) ==
    /\ result.count > 0
    /\ Len(result.data) > 0
    /\ HasLastRun(result.data[1])
    /\ result.data[1].error_message = NoMessage

\* analyze_results of run_health_check.py raises on this result set
LegacyAnalyzeRaises(res) == \E i \in DOMAIN res : OldestTaskRaises(res[i])

LegacyEmptyAnalysis == [critical |-> <<>>, high |-> <<>>, medium |-> <<>>, ok |-> <<>>]

LegacyAnalyzeOne(acc, result) ==
    IF result.count = 0
    THEN [acc EXCEPT !.ok = Append(@, [name |-> result.name,
                                       description |-> result.description,
                                       count |-> result.count])]
    ELSE [acc EXCEPT ![Priority(result.name, result.count, result.data)] =
                         Append(@, [name |-> result.name,
                                    description |-> result.description,
                                    count |-> result.count,
                                    data |-> Take(result.data, 5)])]

RECURSIVE LegacyAnalyzeFrom(_, _, _)
LegacyAnalyzeFrom(acc, res, i) ==
    IF i > Len(res) THEN acc
    ELSE LegacyAnalyzeFrom(LegacyAnalyzeOne(acc, res[i]), res, i + 1)

\* analyze_results of run_health_check.py, when it does not raise
legacy_analyze_results(res) == LegacyAnalyzeFrom(LegacyEmptyAnalysis, res, 1)

\* the AI ANALYSIS blocks the reports render: one per critical or high issue
\* whose name is a key of the diagnosis
DiagnosisBlocks(an, claude) ==
    IF claude = None THEN {}
    ELSE {n \in claude.analysis :
            \/ \E i \in DOMAIN an.critical : an.critical[i].name = n
            \/ \E i \in DOMAIN an.high : an.high[i].name = n}

MainIdle ==
    /\ mpc = "idle"
    /\ argv = [from_json |-> "no", no_ai |-> FALSE, console_only |-> FALSE]
    /\ api_key = FALSE
    /\ anthropic_installed = FALSE
    /\ db_password = FALSE
    /\ db_up = FALSE
    /\ db_results = <<>>
    /\ results_file = "missing"
    /\ claude_file = "missing"
    /\ m_results = <<>>
    /\ claude_analysis = None
    /\ m_analysis = LegacyEmptyAnalysis
    /\ events = <<>>
    /\ llm_args = {}

\* the flags are read; --from-json without a following path exits 1
ParseArgs ==
    /\ mpc = "start"
    /\ mpc' = CASE argv.from_json = "no" -> "execute"
                [] argv.from_json = "no_path" -> "exit1"
                [] OTHER -> "load_results"
    /\ UNCHANGED <<argv, api_key, anthropic_installed, db_password, db_up, db_results,
                   results_file, claude_file, m_results,
                   claude_analysis, m_analysis, events, llm_args>>

\* mutant: a results file that cannot be loaded is replaced by an empty
\* result set and the run goes on
LoadResultsGoesOn ==
    /\ mpc = "load_results"
    /\ IF results_file = "valid"
       THEN /\ m_results' = load_json(save_json(db_results))
            /\ events' = Append(events, "load_json(results_file)")
       ELSE /\ m_results' = <<>>
            /\ events' = events
    /\ mpc' = "load_claude"
    /\ UNCHANGED <<argv, api_key, anthropic_installed, db_password, db_up, db_results,
                   results_file, claude_file,
                   claude_analysis, m_analysis, llm_args>>

\* replay: results = load_json(results_file); exit 1 when the file is missing
\* (FileNotFoundError) or is not JSON (json.JSONDecodeError); any other
\* exception of load_json is caught by nothing
LoadResults ==
    /\ mpc = "load_results"
    /\ IF results_file = "valid"
       THEN /\ m_results' = load_json(save_json(db_results))
            /\ events' = Append(events, "load_json(results_file)")
            /\ mpc' = "load_claude"
       ELSE /\ m_results' = m_results
            /\ events' = events
            /\ mpc' = IF results_file = "unreadable" THEN "crashed" ELSE "exit1"
    /\ UNCHANGED <<argv, api_key, anthropic_installed, db_password, db_up, db_results,
                   results_file, claude_file,
                   claude_analysis, m_analysis, llm_args>>

\* mutant: without --no-ai the replay goes on to the AI analysis step
LoadClaudeRerunsAI ==
    /\ mpc = "load_claude"
    /\ IF claude_file = "valid"
       THEN /\ claude_analysis' = Diagnosis(summary_data(m_results))
            /\ events' = Append(events, "load_json(claude_file)")
       ELSE /\ claude_analysis' = None
            /\ events' = events
    /\ mpc' = IF argv.no_ai THEN "analyze" ELSE "ai"
    /\ UNCHANGED <<argv, api_key, anthropic_installed, db_password, db_up, db_results,
                   results_file, claude_file, m_results,
                   m_analysis, llm_args>>

\* replay: the diagnosis file is loaded when it exists and can be read
LoadClaude ==
    /\ mpc = "load_claude"
    /\ IF claude_file = "valid"
       THEN /\ claude_analysis' = Diagnosis(summary_data(m_results))
            /\ events' = Append(events, "load_json(claude_file)")
       ELSE /\ claude_analysis' = None
            /\ events' = events
    /\ mpc' = "analyze"
    /\ UNCHANGED <<argv, api_key, anthropic_installed, db_password, db_up, db_results,
                   results_file, claude_file, m_results,
                   m_analysis, llm_args>>

\* fresh run: results = execute_all_queries(); get_db_connection_params()
\* calls sys.exit(1) when DB_PASSWORD is unset or empty, and connect_db()
\* raises when the database cannot be reached
ExecuteAllQueries ==
    /\ mpc = "execute"
    /\ IF ~db_password
       THEN /\ m_results' = m_results
            /\ events' = events
            /\ mpc' = "exit1"
       ELSE IF db_up
       THEN /\ m_results' = db_results
            /\ events' = Append(events, "execute_all_queries")
            /\ mpc' = "save"
       ELSE /\ m_results' = m_results
            /\ events' = events
            /\ mpc' = "crashed"
    /\ UNCHANGED <<argv, api_key, anthropic_installed, db_password, db_up, db_results,
                   results_file, claude_file,
                   claude_analysis, m_analysis, llm_args>>

\* fresh run: results_file = save_json(results, ...)
SaveResults ==
    /\ mpc = "save"
    /\ events' = Append(events, "save_json(results)")
    /\ results_file' = "valid"
    /\ mpc' = "ai"
    /\ UNCHANGED <<argv, api_key, anthropic_installed, db_password, db_up, db_results,
                   claude_file, m_results,
                   claude_analysis, m_analysis, llm_args>>

\* fresh run: unless --no-ai, claude_analysis = analyze_with_claude(results),
\* saved when it is not None.  analyze_with_claude returns None without a
\* model call when the key is missing or no query has rows, and None when the
\* model call raises or its answer is not JSON.
AnalyzeWithClaude ==
    /\ mpc = "ai"
    /\ IF argv.no_ai
       THEN UNCHANGED <<claude_analysis, events, llm_args, claude_file>>
       ELSE /\ llm_args' = {"results"}
            /\ IF ~api_key \/ ~anthropic_installed \/ summary_data(m_results) = {}
               THEN /\ events' = Append(events, "analyze_with_claude")
                    /\ UNCHANGED <<claude_analysis, claude_file>>
               ELSE \/ /\ claude_analysis' = Diagnosis(summary_data(m_results))
                       /\ events' = events \o <<"analyze_with_claude", "llm_call",
                                                "save_json(claude_analysis)">>
                       /\ claude_file' = "valid"
                    \/ /\ events' = events \o <<"analyze_with_claude", "llm_call">>
                       /\ UNCHANGED <<claude_analysis, claude_file>>
    /\ mpc' = "analyze"
    /\ UNCHANGED <<argv, api_key, anthropic_installed, db_password, db_up, db_results,
                   results_file, m_results, m_analysis>>

\* analysis = analyze_results(results)
AnalyzeResults ==
    /\ mpc = "analyze"
    /\ IF LegacyAnalyzeRaises(m_results)
       THEN /\ mpc' = "crashed"
            /\ UNCHANGED <<m_analysis, events>>
       ELSE /\ m_analysis' = legacy_analyze_results(m_results)
            /\ events' = Append(events, "analyze_results")
            /\ mpc' = "console"
    /\ UNCHANGED <<argv, api_key, anthropic_installed, db_password, db_up, db_results,
                   results_file, claude_file, m_results,
                   claude_analysis, llm_args>>

\* print_console_report(analysis, claude_analysis)
PrintConsoleReport ==
    /\ mpc = "console"
    /\ events' = Append(events, "print_console_report")
    /\ mpc' = "html"
    /\ UNCHANGED <<argv, api_key, anthropic_installed, db_password, db_up, db_results,
                   results_file, claude_file, m_results,
                   claude_analysis, m_analysis, llm_args>>

\* generate_html_report of run_health_check.py raises NameError: the card of
\* a critical or high issue is an f-string that holds the text {action}
HtmlReportRaises(an) == an.critical # <<>> \/ an.high # <<>>

\* unless --console-only, generate_html_report(...); then the summary, exit 0
GenerateHtmlReport ==
    /\ mpc = "html"
    /\ IF argv.console_only
       THEN /\ events' = events
            /\ mpc' = "exit0"
       ELSE IF HtmlReportRaises(m_analysis)
       THEN /\ events' = events
            /\ mpc' = "crashed"
       ELSE /\ events' = Append(events, "generate_html_report")
            /\ mpc' = "exit0"
    /\ UNCHANGED <<argv, api_key, anthropic_installed, db_password, db_up, db_results,
                   results_file, claude_file, m_results,
                   claude_analysis, m_analysis, llm_args>>

(***************************************************************************)
(* claude_analyzer.analyze_with_claude: the group-based client.  A          *)
(* diagnosis mapping is a function from group keys to diagnoses.           *)
(***************************************************************************)
RegularKeys == {"TOKEN::E::p", "WMS::E::p"}
UncategorizedKeys == {"UNCATEGORIZED_ERRORS::E::p", "UNCATEGORIZED_ERRORS::F::q"}

MaxListed == 2

\* the lists of groups the client builds, each group held by its group_key:
\* two groups of one issue whose exception is the same and whose patterns
\* share their first 30 characters have the same group_key
ListsOfGroups(keys) == UNION {[1..n -> keys] : n \in 0..MaxListed}

\* how the backend answers one sub-call: a JSON object with one diagnosis per
\* requested group, the same plus a key both passes use, the empty object,
\* text that is not JSON, or an exception of client.messages.create
AnswerKinds == {"all", "shared", "empty", "garbage", "raises"}

EmptyMapping == [k \in {} |-> "none"]

\* json.loads(response_text.strip()) of a sub-call answered that way; None
\* when the call raised or the text is not JSON (except Exception: return None)
SubCall(pass, groups, kind) ==
    CASE kind = "all" -> [k \in Range(groups) |-> [from |-> pass, group |-> k]]
      [] kind = "shared" ->
            [k \in Range(groups) \cup {"shared"} |-> [from |-> pass, group |-> k]]
      [] kind = "empty" -> EmptyMapping
      [] OTHER -> None

analyze_regular_groups(groups, kind) == SubCall("regular", groups, kind)

analyze_uncategorized_groups(groups, kind) == SubCall("uncategorized", groups, kind)

\* dict.update
Update(a, b) ==
    [k \in DOMAIN a \cup DOMAIN b |-> IF k \in DOMAIN b THEN b[k] ELSE a[k]]

\* if regular_analysis: all_analysis.update(regular_analysis)
MergeIfTruthy(acc, sub) ==
    IF sub = None \/ sub = EmptyMapping THEN acc ELSE Update(acc, sub)

GroupIdle ==
    /\ gpc = "idle"
    /\ g_api_key = FALSE
    /\ g_anthropic_installed = FALSE
    /\ g_summary = FALSE
    /\ error_groups_for_analysis = <<>>
    /\ uncategorized_groups = <<>>
    /\ regular_answer = "all"
    /\ uncategorized_answer = "all"
    /\ all_analysis = EmptyMapping
    /\ g_calls = <<>>
    /\ g_ret = None

\* the key check, the import of the anthropic package, the shaping of the
\* groups and the no-issues return
GroupPrelude ==
    /\ gpc = "start"
    /\ gpc' = IF \/ ~g_api_key
                 \/ ~g_anthropic_installed
                 \/ (~g_summary /\ error_groups_for_analysis = <<>>
                       /\ uncategorized_groups = <<>>)
              THEN "returned" ELSE "regular"
    /\ UNCHANGED <<g_api_key, g_anthropic_installed, g_summary, error_groups_for_analysis,
                   uncategorized_groups,
                   regular_answer, uncategorized_answer, all_analysis, g_calls, g_ret>>

\* First: analyze regular error groups
RegularPass ==
    /\ gpc = "regular"
    /\ IF error_groups_for_analysis # <<>>
       THEN /\ all_analysis' =
                  MergeIfTruthy(all_analysis,
                      analyze_regular_groups(error_groups_for_analysis, regular_answer))
            /\ g_calls' = Append(g_calls, "regular")
       ELSE UNCHANGED <<all_analysis, g_calls>>
    /\ gpc' = "uncategorized"
    /\ UNCHANGED <<g_api_key, g_anthropic_installed, g_summary, error_groups_for_analysis,
                   uncategorized_groups,
                   regular_answer, uncategorized_answer, g_ret>>

\* mutant: a sub-call that gives nothing resets the merged mapping
UncategorizedPassResets ==
    /\ gpc = "uncategorized"
    /\ IF uncategorized_groups # <<>>
       THEN /\ all_analysis' =
                  LET sub == analyze_uncategorized_groups(uncategorized_groups,
                                                          uncategorized_answer)
                  IN  IF sub = None THEN EmptyMapping ELSE MergeIfTruthy(all_analysis, sub)
            /\ g_calls' = Append(g_calls, "uncategorized")
       ELSE UNCHANGED <<all_analysis, g_calls>>
    /\ gpc' = "metadata"
    /\ UNCHANGED <<g_api_key, g_anthropic_installed, g_summary, error_groups_for_analysis,
                   uncategorized_groups,
                   regular_answer, uncategorized_answer, g_ret>>

\* Second: analyze uncategorized groups
UncategorizedPass ==
    /\ gpc = "uncategorized"
    /\ IF uncategorized_groups # <<>>
       THEN /\ all_analysis' =
                  MergeIfTruthy(all_analysis,
                      analyze_uncategorized_groups(uncategorized_groups,
                                                   uncategorized_answer))
            /\ g_calls' = Append(g_calls, "uncategorized")
       ELSE UNCHANGED <<all_analysis, g_calls>>
    /\ gpc' = "metadata"
    /\ UNCHANGED <<g_api_key, g_anthropic_installed, g_summary, error_groups_for_analysis,
                   uncategorized_groups,
                   regular_answer, uncategorized_answer, g_ret>>

\* the record with metadata is built and returned
GroupReturn ==
    /\ gpc = "metadata"
    /\ g_ret' = [total_error_groups |-> Len(error_groups_for_analysis),
                 total_uncategorized_groups |-> Len(uncategorized_groups),
                 analysis |-> all_analysis,
                 analysis_type |-> "error_groups"]
    /\ gpc' = "returned"
    /\ UNCHANGED <<g_api_key, g_anthropic_installed, g_summary, error_groups_for_analysis,
                   uncategorized_groups,
                   regular_answer, uncategorized_answer, all_analysis, g_calls>>

(***************************************************************************)
(* analyze_error.main: the single-error CLI.                               *)
(***************************************************************************)
CliArgs == [task_id : BOOLEAN, pattern : BOOLEAN]

CliEnvironments ==
    [api_key : BOOLEAN, anthropic : BOOLEAN, newrelic : BOOLEAN, github : BOOLEAN]

\* the process has not exited
Running == [py |-> "running"]

\* what analyze_single_error hands back to the CLI: None when the API key,
\* the anthropic package or the New Relic credentials are missing, "raised"
\* when a model call raises (nothing catches it), else the record with the
\* analysis text
SingleErrorOutcome(e, model) ==
    IF ~e.api_key \/ ~e.anthropic \/ ~e.newrelic THEN None
    ELSE IF model = "raises" THEN [py |-> "raised"]
    ELSE [task_id |-> "task", analysis |-> "text", tool_iterations |-> 0]

CliIdle ==
    /\ cpc = "idle"
    /\ c_args = [task_id |-> FALSE, pattern |-> FALSE]
    /\ c_env = [api_key |-> FALSE, anthropic |-> FALSE, newrelic |-> FALSE, github |-> FALSE]
    /\ c_errors = 0
    /\ c_model = "answers"
    /\ c_result = None
    /\ c_status = Running

\* args = parser.parse_args(); parser.error(...) exits with status 2
CliParseArgs ==
    /\ cpc = "start"
    /\ IF ~c_args.task_id /\ ~c_args.pattern
       THEN cpc' = "exited" /\ c_status' = 2
       ELSE cpc' = "env" /\ c_status' = c_status
    /\ UNCHANGED <<c_args, c_env, c_errors, c_model, c_result>>

\* the required environment variables are checked, the configuration printed
CliCheckEnvironment ==
    /\ cpc = "env"
    /\ IF ~c_env.api_key
       THEN cpc' = "exited" /\ c_status' = 1
       ELSE cpc' = "analyze" /\ c_status' = c_status
    /\ UNCHANGED <<c_args, c_env, c_errors, c_model, c_result>>

\* result = analyze_single_error(...), directly or after the pattern search.
\* An exception nothing catches ends the process with a traceback, status 1.
CliAnalyze ==
    /\ cpc = "analyze"
    /\ LET outcome == SingleErrorOutcome(c_env, c_model)
           crash == /\ cpc' = "exited"
                    /\ c_status' = 1
                    /\ c_result' = c_result
           goes_on(r) == /\ cpc' = "report"
                         /\ c_status' = c_status
                         /\ c_result' = r
       IN  IF c_args.task_id
           THEN IF outcome = [py |-> "raised"] THEN crash ELSE goes_on(outcome)
           ELSE IF ~c_env.newrelic
           THEN crash
           ELSE IF c_errors = 0
           THEN goes_on(None)
           ELSE IF outcome = [py |-> "raised"] THEN crash ELSE goes_on(outcome)
    /\ UNCHANGED <<c_args, c_env, c_errors, c_model>>

\* if result: print the analysis ... else: "Analysis failed", sys.exit(1)
CliReport ==
    /\ cpc = "report"
    /\ cpc' = "exited"
    /\ c_status' = IF c_result = None THEN 1 ELSE 0
    /\ UNCHANGED <<c_args, c_env, c_errors, c_model, c_result>>

(***************************************************************************)
(* Diagnosis keys and html_reporter.  A name is the sequence of its parts  *)
(* (ORDER_UPDATE_REFUND is ORDER, _UPDATE, _REFUND), so that one name is a   *)
(* prefix of another exactly when its parts are.  A pattern is a sequence  *)
(* of pieces of ten characters, so that pattern[:30] is its first three    *)
(* pieces and pattern[:50] its first five.  A key is the record of the     *)
(* components that the code joins with '::'.                               *)
(***************************************************************************)
ORDER_UPDATE == <<"ORDER", "_UPDATE">>

ORDER_UPDATE_REFUND == <<"ORDER", "_UPDATE", "_REFUND">>

TOKEN == <<"TOKEN">>

IssueNames == {ORDER_UPDATE, ORDER_UPDATE_REFUND, TOKEN}

PieceA == "error al a"

PieceB == "nalizar el"

\* groups as the grouper tells them apart: by exception and whole pattern
GroupIdentities ==
    { [exception |-> "ValueError", pattern |-> <<PieceA, PieceB, PieceA>>],
      [exception |-> "ValueError", pattern |-> <<PieceA, PieceB, PieceA, PieceB>>],
      [exception |-> "KeyError", pattern |-> <<PieceA, PieceB, PieceA>>],
      [exception |-> "ValueError",
       pattern |-> <<PieceA, PieceB, PieceA, PieceB, PieceA, PieceA>>],
      [exception |-> "ValueError",
       pattern |-> <<PieceA, PieceB, PieceA, PieceB, PieceA, PieceB>>] }

\* create_error_groups_for_issue: 'group_key': f"{exception}::{pattern_key[:50]}"
ErrorGroup(g) ==
    [group_key |-> [exception |-> g.exception, pattern |-> Take(g.pattern, 5)],
     exception |-> g.exception,
     pattern |-> g.pattern]

MaxGroups == 2

\* the error groups of one issue: distinct (exception, pattern) pairs
GroupLists ==
    { gs \in UNION {[1..n -> GroupIdentities] : n \in 1..MaxGroups} :
        \A i, j \in DOMAIN gs : gs[i] = gs[j] => i = j }

SeverityBuckets == {"critical", "high", "medium"}

Issue(name, bucket, gs) ==
    [name |-> name, bucket |-> bucket,
     error_groups |-> [i \in DOMAIN gs |-> ErrorGroup(gs[i])]]

\* one issue, or two issues of different names, the second with one group
IssueLists ==
    { <<Issue(n, b, gs)>> : n \in IssueNames, b \in SeverityBuckets, gs \in GroupLists }
    \cup
    { <<Issue(p[1], p[2], p[3]), Issue(p[4], p[5], <<p[3][1]>>)>> :
        p \in { q \in IssueNames \X SeverityBuckets \X GroupLists
                      \X IssueNames \X {"critical", "medium"} : q[1] # q[4] } }

\* group_key = f"{issue_name}::{group['exception']}::{group['pattern'][:30]}"
GroupKey(issue_name, group) ==
    [issue |-> issue_name, exception |-> group.exception,
     pattern |-> Take(group.pattern, 3)]

RECURSIVE Flatten(_)
Flatten(seqs) == IF seqs = <<>> THEN <<>> ELSE Head(seqs) \o Flatten(Tail(seqs))

InBucket(issues, bucket) == SelectSeq(issues, LAMBDA i : i.bucket = bucket)

\* for priority in ['critical', 'high', 'medium']: for issue: for group
RequestedKeys(issues) ==
    LET ordered == InBucket(issues, "critical") \o InBucket(issues, "high")
                       \o InBucket(issues, "medium")
    IN  Flatten([i \in DOMAIN ordered |->
                    [j \in DOMAIN ordered[i].error_groups |->
                        GroupKey(ordered[i].name, ordered[i].error_groups[j])]])

AnalysisTypes == {"error_groups", "enhanced_with_tools", "basic"}

MaxDiagnoses == 2

\* the diagnosis mappings a model can answer with: entries under some of the
\* requested keys, in any order (a dict keeps the order of the answer); the
\* value of an entry is a diagnosis (filled) or is empty ({}, null, "")
Mappings(keys) ==
    { m \in UNION {[1..n -> [key : Range(keys), filled : BOOLEAN]] :
                      n \in 0..MaxDiagnoses} :
        \A i, j \in DOMAIN m : m[i].key = m[j].key => i = j }

IsPrefix(a, b) == Len(a) <= Len(b) /\ SubSeq(b, 1, Len(a)) = a

\* group_key.startswith(key.split('::')[0]): the first component of a key is
\* its issue name, and names hold no ':'
StartsWithFirstComponent(group_key, key) == IsPrefix(key.issue, group_key.issue)

\* if not ai_analysis: None and the empty mapping alike
NoAnalysis == <<>>

\* _generate_claude_analysis_html: the key of the diagnosis it renders, or
\* None.  The entry under group_key, else the first entry whose first
\* component group_key starts with, is looked at; an empty entry renders
\* nothing (if not ai: return "")
FindDiagnosis(ai_analysis, group_key) ==
    IF ai_analysis = NoAnalysis \/ group_key = None
    THEN None
    ELSE LET exact == {i \in DOMAIN ai_analysis : ai_analysis[i].key = group_key}
             hits == {i \in DOMAIN ai_analysis :
                         StartsWithFirstComponent(group_key, ai_analysis[i].key)}
             found == IF exact # {} THEN exact ELSE hits
         IN  IF found = {}
             THEN None
             ELSE LET ai == ai_analysis[CHOOSE i \in found : \A j \in found : i <= j]
                  IN  IF ai.filled THEN ai.key ELSE None

\* _generate_error_group_html: one card, with the diagnosis block it holds
ErrorGroupCard(issue, j, ai_analysis) ==
    LET group_key == GroupKey(issue.name, issue.error_groups[j])
    IN  [issue |-> issue.name, bucket |-> issue.bucket, group |-> j,
         group_key |-> group_key,
         diagnosis |-> FindDiagnosis(ai_analysis, group_key)]

\* _generate_issue_card: the group cards of one issue
IssueCard(issue, ai_analysis, ai_analysis_type) ==
    [j \in DOMAIN issue.error_groups |->
        ErrorGroupCard(issue, j,
            IF ai_analysis_type = "error_groups" THEN ai_analysis ELSE NoAnalysis)]

Section(issues, bucket, ai_analysis, ai_analysis_type) ==
    LET these == InBucket(issues, bucket)
    IN  Flatten([i \in DOMAIN these |->
                    IssueCard(these[i], ai_analysis, ai_analysis_type)])

\* generate_html_report: the record is unwrapped, then the critical and the
\* high section get the diagnoses, the medium section gets none
generate_html_report(issues, claude) ==
    LET ai_analysis == IF claude = None THEN NoAnalysis ELSE claude.analysis
        ai_analysis_type == IF claude = None THEN "legacy" ELSE claude.analysis_type
    IN  Section(issues, "critical", ai_analysis, ai_analysis_type)
            \o Section(issues, "high", ai_analysis, ai_analysis_type)
            \o Section(issues, "medium", NoAnalysis, "legacy")

ReportIdle ==
    /\ rpc = "idle"
    /\ r_issues = <<>>
    /\ r_keys = <<>>
    /\ r_claude = None
    /\ r_cards = <<>>

\* analyze_with_claude shapes the groups and their keys
BuildGroupKeys ==
    /\ rpc = "start"
    /\ r_keys' = RequestedKeys(r_issues)
    /\ rpc' = "keyed"
    /\ UNCHANGED <<r_issues, r_claude, r_cards>>

\* the client returns None, or the answer of the model wrapped with metadata
ReceiveDiagnosis ==
    /\ rpc = "keyed"
    /\ \/ r_claude' = None
       \/ \E t \in AnalysisTypes, m \in Mappings(r_keys) :
             r_claude' = [analysis_type |-> t, analysis |-> m]
    /\ rpc' = "diagnosed"
    /\ UNCHANGED <<r_issues, r_keys, r_cards>>

RenderHtmlReport ==
    /\ rpc = "diagnosed"
    /\ r_cards' = generate_html_report(r_issues, r_claude)
    /\ rpc' = "rendered"
    /\ UNCHANGED <<r_issues, r_keys, r_claude>>

CallIdle ==
    /\ fpc = "idle"
    /\ f_args = None
    /\ f_ret = None

(***************************************************************************)
(* Saved files of a fresh run and the files a replay loads                 *)
(* (run_health_check.py main, save_json, load_json).  A path is the        *)
(* sequence of its pieces: "/" is the separator, "results_" and "claude_"  *)
(* are the file-name prefixes, a timestamp piece stands for                *)
(* '<YYYY-MM-DD_HH-MM>.json'.                                              *)
(***************************************************************************)
Timestamps == {"2026-01-14_21-00.json", "2026-01-15_09-30.json"}

\* os.path.join(directory, filename)
os_path_join(directory, filename) == directory \o <<"/">> \o filename

\* str.replace(old, new): every non-overlapping occurrence, left to right
RECURSIVE str_replace(_, _, _)
str_replace(s, old, new) ==
    IF Len(s) < Len(old) THEN s
    ELSE IF SubSeq(s, 1, Len(old)) = old
         THEN new \o str_replace(SubSeq(s, Len(old) + 1, Len(s)), old, new)
         ELSE <<s[1]>> \o str_replace(Tail(s), old, new)

\* 'old in s'
RECURSIVE str_contains(_, _)
str_contains(s, old) ==
    /\ Len(s) >= Len(old)
    /\ \/ SubSeq(s, 1, Len(old)) = old
       \/ str_contains(Tail(s), old)

\* the file a relative path names: a leading './' names the same directory
RECURSIVE Resolve(_)
Resolve(path) ==
    IF Len(path) >= 2 /\ path[1] = "." /\ path[2] = "/"
    THEN Resolve(SubSeq(path, 3, Len(path)))
    ELSE path

\* open(filepath, 'w') and json.dump: the file holds the data afterwards
WriteFile(files, filepath, data) ==
    {f \in files : f.path # Resolve(filepath)}
        \cup {[path |-> Resolve(filepath), data |-> data]}

\* os.path.exists(filepath)
path_exists(files, filepath) == \E f \in files : f.path = Resolve(filepath)

\* load_json(filepath) of an existing file
ReadFile(files, filepath) ==
    (CHOOSE f \in files : f.path = Resolve(filepath)).data

\* the path save_json returns for the results of a fresh run
ResultsPath(ts) == os_path_join(<<"data">>, <<"results_", ts>>)

\* the path of the diagnosis of a fresh run
ClaudePath(ts) == os_path_join(<<"analysis">>, <<"claude_", ts>>)

\* the diagnosis path a replay derives from the results path
DerivedClaudeFile(path) ==
    str_replace(str_replace(path, <<"results_">>, <<"claude_">>),
                <<"/", "data", "/">>, <<"/", "analysis", "/">>)

ResultsData(ts) == [kind |-> "results", run |-> ts]

ClaudeData(ts) == [kind |-> "diagnosis", run |-> ts]

\* files that may lie in the working tree before the program runs: copies of
\* the results of an earlier run under other names, and an earlier run's
\* files under an absolute path
EarlierRun == "2026-01-13_08-15.json"

OtherFiles ==
    { [path |-> <<"snapshot.json">>, data |-> ResultsData(EarlierRun)],
      [path |-> <<"data", "/", "snapshot.json">>, data |-> ResultsData(EarlierRun)],
      [path |-> <<"/", "srv", "/", "data", "/", "results_", EarlierRun>>,
       data |-> ResultsData(EarlierRun)],
      [path |-> <<"/", "srv", "/", "analysis", "/", "claude_", EarlierRun>>,
       data |-> ClaudeData(EarlierRun)] }

\* the paths given to --from-json
ReplayPaths ==
    {ResultsPath(ts) : ts \in Timestamps}
        \cup {<<".", "/">> \o ResultsPath(ts) : ts \in Timestamps}
        \cup {f.path : f \in {g \in OtherFiles : g.data.kind = "results"}}

NoRun == [py |-> "no fresh run"]

\* The fresh run and the replay are two processes over one working tree.
\* f_args.run is the fresh run: NoRun before it has saved anything, then its
\* paths and its position, "model_call" while it waits for the answer of
\* analyze_with_claude and "done" afterwards; fpc is the position of the
\* replay.

\* fresh run: the results are saved under data/; with --no-ai nothing else
\* is written
FreshSaveResults ==
    /\ f_args.run = NoRun
    /\ \E ts \in Timestamps, skip_ai \in BOOLEAN :
          f_args' = [files |-> WriteFile(f_args.files, ResultsPath(ts), ResultsData(ts)),
                     run |-> [results_file |-> ResultsPath(ts),
                              timestamp |-> ts,
                              diagnosis_saved |-> FALSE,
                              pc |-> IF skip_ai THEN "done" ELSE "model_call"]]
    /\ UNCHANGED <<fpc, f_ret>>

\* fresh run: analyze_with_claude returns, and the diagnosis, when one was
\* produced, is saved under analysis/
FreshAnalyzeWithClaude ==
    /\ f_args.run # NoRun
    /\ f_args.run.pc = "model_call"
    /\ \E produced \in BOOLEAN :
          f_args' = [files |-> IF produced
                               THEN WriteFile(f_args.files,
                                              ClaudePath(f_args.run.timestamp),
                                              ClaudeData(f_args.run.timestamp))
                               ELSE f_args.files,
                     run |-> [f_args.run EXCEPT !.diagnosis_saved = produced,
                                                !.pc = "done"]]
    /\ UNCHANGED <<fpc, f_ret>>

\* replay: the results file is loaded, a missing one ends the process with
\* status 1; the diagnosis is loaded from the derived path if that exists.
\* f_ret.run keeps what the fresh run had done when the replay ran.
ReplayFromJson ==
    /\ fpc = "start"
    /\ \E given \in ReplayPaths :
          IF ~ path_exists(f_args.files, given)
          THEN /\ fpc' = "exit"
               /\ f_ret' = [status |-> 1, results_file |-> given, run |-> f_args.run]
          ELSE /\ fpc' = "replayed"
               /\ f_ret' = [run |-> f_args.run,
                            results_file |-> given,
                            results |-> ReadFile(f_args.files, given),
                            claude_file |-> DerivedClaudeFile(given),
                            claude_analysis |->
                                IF path_exists(f_args.files, DerivedClaudeFile(given))
                                THEN ReadFile(f_args.files, DerivedClaudeFile(given))
                                ELSE None]
    /\ UNCHANGED f_args

(***************************************************************************)
(* Source code for a stack trace (github_client.py).  A class name is the  *)
(* sequence of its dot-separated pieces, a file path the sequence of its   *)
(* slash-separated pieces; the content of a file is the sequence of its    *)
(* lines, the empty sequence being the empty string.                       *)
(***************************************************************************)
MaxLines == 3
MaxLineNumber == 5
MaxContextLines == 2
MaxFrames == 3
MaxFiles == 2

ProjectPackage == <<"com", "elevva", "elevvatecore">>

ProjectClasses ==
    { ProjectPackage \o <<"services", "OrderService">>,
      ProjectPackage \o <<"repositories", "OrderRepository">>,
      ProjectPackage \o <<"jobs", "OrderJob">> }

LibraryClasses == { <<"java", "util", "ArrayList">> }

\* "src/main/java/" + class_name.replace(".", "/") + ".java"
FilePathOf(class_name) == <<"src", "main", "java">> \o class_name \o <<".java">>

ProjectPaths == {FilePathOf(c) : c \in ProjectClasses}

\* the lines of a file of n lines; n = 0 is a file whose content is empty
FileLines(n) == [i \in 1..n |-> [text |-> i]]

\* what get_file_content returns for a path: None for a 404, else the file
FileDataOf(path, n) == [content |-> FileLines(n), html_url |-> path]

Repositories ==
    [ProjectPaths -> {None} \cup {[lines |-> n] : n \in 0..MaxLines}]

get_file_content(repo, path) ==
    IF repo[path] = None THEN None ELSE FileDataOf(path, repo[path].lines)

\* the stack traces: 'at <class>.<method>(<file>:<line>)' lines, the line
\* number of a frame being its position in the trace
RECURSIVE SeqsUpTo(_, _)
SeqsUpTo(S, n) ==
    IF n = 0 THEN {<<>>}
    ELSE SeqsUpTo(S, n - 1)
            \cup {Append(s, x) : s \in {t \in SeqsUpTo(S, n - 1) : Len(t) = n - 1}, x \in S}

StackTraces ==
    { [i \in DOMAIN cs |-> [class_name |-> cs[i], line_number |-> i]] :
        cs \in SeqsUpTo(ProjectClasses \cup LibraryClasses, MaxFrames) }

\* parse_stack_trace: one frame per line, with the path for project classes
parse_stack_trace(stack_trace) ==
    [i \in DOMAIN stack_trace |->
        IF IsPrefix(ProjectPackage, stack_trace[i].class_name)
        THEN [class_name |-> stack_trace[i].class_name,
              file_path |-> FilePathOf(stack_trace[i].class_name),
              line_number |-> stack_trace[i].line_number,
              is_project_code |-> TRUE]
        ELSE [class_name |-> stack_trace[i].class_name,
              file_path |-> <<>>,
              line_number |-> stack_trace[i].line_number,
              is_project_code |-> FALSE]]

StartLine(line_number, context_lines) == Max(1, line_number - context_lines)

\* mutant of EndLine: the window is not cut at the last line of the file
EndLineUnclamped(total_lines, line_number, context_lines) ==
    line_number + context_lines

EndLine(total_lines, line_number, context_lines) ==
    Min(total_lines, line_number + context_lines)

\* range(start_line - 1, end_line), one entry per index
ContextCode(lines, start_line, end_line, line_number) ==
    [k \in 1..Max(0, end_line - start_line + 1) |->
        LET i == start_line - 1 + (k - 1)
            line_num == i + 1
        IN  [line_number |-> line_num,
             content |-> IF i < Len(lines) THEN lines[i + 1] ELSE [text |-> 0],
             is_target |-> line_num = line_number]]

get_code_context(repo, file_path, line_number, context_lines) ==
    LET file_data == get_file_content(repo, file_path)
    IN  IF file_data = None THEN None
        ELSE IF file_data.content = <<>> THEN None
        ELSE LET lines == file_data.content
                 total_lines == Len(lines)
                 start_line == StartLine(line_number, context_lines)
                 end_line == EndLine(total_lines, line_number, context_lines)
             IN  [file_path |-> file_path,
                  html_url |-> file_data.html_url,
                  target_line |-> line_number,
                  start_line |-> start_line,
                  end_line |-> end_line,
                  total_lines |-> total_lines,
                  context |-> ContextCode(lines, start_line, end_line, line_number),
                  full_content |-> file_data.content]

\* context_lines of get_code_context when the caller gives none
DefaultContextLines == 10

\* [f for f in frames if f.get("is_project_code")]
IsProjectFrame(f) == f.is_project_code

\* the loop over project_frames[:max_files]: a frame whose path was seen is
\* skipped, a path is seen before its file is fetched, a frame whose file
\* gives no context adds nothing
RECURSIVE CollectFiles(_, _, _, _)
CollectFiles(repo, frames, seen_files, collected) ==
    IF frames = <<>> THEN collected
    ELSE LET frame == Head(frames)
             file_path == frame.file_path
         IN  IF file_path = <<>> \/ file_path \in seen_files
             THEN CollectFiles(repo, Tail(frames), seen_files, collected)
             ELSE LET code_context ==
                          get_code_context(repo, file_path, frame.line_number,
                                           DefaultContextLines)
                  IN  CollectFiles(repo, Tail(frames), seen_files \cup {file_path},
                          IF code_context = None THEN collected
                          ELSE Append(collected, [frame |-> frame, code |-> code_context]))

get_files_from_stack_trace(repo, stack_trace, max_files) ==
    LET frames == parse_stack_trace(stack_trace)
        project_frames == SelectSeq(frames, IsProjectFrame)
    IN  CollectFiles(repo, Take(project_frames, max_files), {}, <<>>)

\* a call of get_code_context
GetCodeContext ==
    /\ fpc = "start"
    /\ \E file_path \in ProjectPaths, line_number \in 1..MaxLineNumber,
          context_lines \in 0..MaxContextLines :
          f_ret' = [fn |-> "get_code_context",
                    file_path |-> file_path,
                    line_number |-> line_number,
                    context_lines |-> context_lines,
                    value |-> get_code_context(f_args.repo, file_path,
                                               line_number, context_lines)]
    /\ fpc' = "returned"
    /\ UNCHANGED f_args

\* a call of get_files_from_stack_trace
GetFilesFromStackTrace ==
    /\ fpc = "start"
    /\ \E stack_trace \in StackTraces, max_files \in 0..MaxFiles :
          f_ret' = [fn |-> "get_files_from_stack_trace",
                    stack_trace |-> stack_trace,
                    max_files |-> max_files,
                    value |-> get_files_from_stack_trace(f_args.repo, stack_trace,
                                                         max_files)]
    /\ fpc' = "returned"
    /\ UNCHANGED f_args

(***************************************************************************)
(* The catch-all issue: common_type and common_subtype of its error groups *)
(* (results_analyzer.py _build_issue).                                     *)
(***************************************************************************)
MaxData == 3

\* type and sub_type in the order of the query, ORDER BY t.type, t.sub_type
TypesInOrder == <<"EXPORT", "SYNC">>

SubTypesInOrder == <<"", "ORDERS", "STOCK">>

RankIn(ordered, x) == CHOOSE i \in DOMAIN ordered : ordered[i] = x

\* the rows of the catch-all query, without their ids
CatchAllKinds ==
    [exception : Exceptions,
     error_message : {NoMessage, TextMessage(Lead("order", " ", "", ""), <<"4">>)},
     type : Range(TypesInOrder),
     sub_type : Range(SubTypesInOrder)]

InQueryOrder(a, b) ==
    \/ RankIn(TypesInOrder, a.type) < RankIn(TypesInOrder, b.type)
    \/ /\ a.type = b.type
       /\ RankIn(SubTypesInOrder, a.sub_type) <= RankIn(SubTypesInOrder, b.sub_type)

\* the data of the catch-all result: rows in the order of the query
CatchAllData ==
    { [i \in DOMAIN kinds |-> [id |-> i,
                               last_run |-> DateTime(0),
                               exception |-> kinds[i].exception,
                               error_message |-> kinds[i].error_message,
                               type |-> kinds[i].type,
                               sub_type |-> kinds[i].sub_type,
                               seller_id |-> "",
                               data |-> JsonData("number", "12")]] :
        kinds \in { ks \in UNION {[1..n -> CatchAllKinds] : n \in 1..MaxData} :
                      \A i \in 1..(Len(ks) - 1) : InQueryOrder(ks[i], ks[i + 1]) } }

\* counts[x] of a dict of counts filled from the values
CountIn(values, x) == Cardinality({i \in DOMAIN values : values[i] = x})

\* max(counts, key=counts.get): the first key, in insertion order, of the
\* highest count
MostCommon(values) ==
    LET keys == Distinct(values)
        first == CHOOSE i \in DOMAIN keys :
                    /\ \A j \in DOMAIN keys :
                          CountIn(values, keys[j]) <= CountIn(values, keys[i])
                    /\ \A j \in 1..(i - 1) :
                          CountIn(values, keys[j]) < CountIn(values, keys[i])
    IN  keys[first]

Str(s) == [py |-> "str", value |-> s]

\* the counting loop and the two max() of _build_issue, over the tasks given
common_type(tasks) == MostCommon([i \in DOMAIN tasks |-> tasks[i].type])

common_subtype(tasks) ==
    LET truthy == SelectSeq([i \in DOMAIN tasks |-> tasks[i].sub_type],
                            LAMBDA st : st # "")
    IN  IF truthy = <<>> THEN None ELSE Str(MostCommon(truthy))

\* _build_issue with is_uncategorized: every group gets the counts taken
\* over data, the tasks of the whole issue
uncategorized_error_groups(data) ==
    LET created == create_error_groups_for_issue(data)
    IN  IF created = Raised THEN Raised
        ELSE Value([i \in DOMAIN created.error_groups |->
                        created.error_groups[i]
                            @@ [common_type |-> common_type(data),
                                common_subtype |-> common_subtype(data)]])

\* a call of _build_issue for the catch-all result
BuildUncategorizedIssue ==
    /\ fpc = "start"
    /\ fpc' = "returned"
    /\ f_ret' = uncategorized_error_groups(f_args.data)
    /\ UNCHANGED f_args

(***************************************************************************)
(* Specifications.                                                         *)
(***************************************************************************)
ExecInit ==
    /\ db \in Databases
    /\ failing \in SUBSET MayRaise
    /\ epc = "start"
    /\ connection = "none"
    /\ cursor = "none"
    /\ qi = 0
    /\ results = <<>>
    /\ processed_task_ids = {}
    /\ all_error_rows = <<>>
    /\ raised = {}
    /\ executed = <<>>
    /\ AnalyzerIdle
    /\ LoopIdle
    /\ MainIdle
    /\ GroupIdle
    /\ CliIdle
    /\ GrouperIdle
    /\ ReportIdle
    /\ CallIdle

ExecNext ==
    \/ GetConnection /\ UNCHANGED <<avars, lvars, xvars>>
    \/ CreateCursor /\ UNCHANGED <<avars, lvars, xvars>>
    \/ ExecuteTyped /\ UNCHANGED <<avars, lvars, xvars>>
    \/ ExecuteCatchAll /\ UNCHANGED <<avars, lvars, xvars>>
    \/ CloseAndReturn /\ UNCHANGED <<avars, lvars, xvars>>

ExecSpec == ExecInit /\ [][ExecNext]_vars

AnalyzerInit ==
    /\ ExecIdle
    /\ apc = "fresh"
    /\ in_results \in ResultSets
    /\ analysis = EmptyAnalysis
    /\ json_file = <<>>
    /\ reloaded = <<>>
    /\ replay_analysis = EmptyAnalysis
    /\ LoopIdle
    /\ MainIdle
    /\ GroupIdle
    /\ CliIdle
    /\ GrouperIdle
    /\ ReportIdle
    /\ CallIdle

AnalyzerNext ==
    \/ SaveJson /\ UNCHANGED <<evars, lvars, xvars>>
    \/ AnalyzeFresh /\ UNCHANGED <<evars, lvars, xvars>>
    \/ LoadJson /\ UNCHANGED <<evars, lvars, xvars>>
    \/ AnalyzeReplay /\ UNCHANGED <<evars, lvars, xvars>>

AnalyzerSpec == AnalyzerInit /\ [][AnalyzerNext]_vars

LoopInit ==
    /\ ExecIdle
    /\ AnalyzerIdle
    /\ lpc = "start"
    /\ fn \in {"analyze_with_claude", "analyze_single_error"}
    /\ env \in Environments
    /\ script = <<>>
    /\ iteration = 0
    /\ messages = <<>>
    /\ response = NoResponse
    /\ model_calls = 0
    /\ all_tool_use = TRUE
    /\ ret = None
    /\ MainIdle
    /\ GroupIdle
    /\ CliIdle
    /\ GrouperIdle
    /\ ReportIdle
    /\ CallIdle

LoopNext ==
    \/ Prelude /\ UNCHANGED <<evars, avars, xvars>>
    \/ InitialCall /\ UNCHANGED <<evars, avars, xvars>>
    \/ ToolIteration /\ UNCHANGED <<evars, avars, xvars>>
    \/ Finish /\ UNCHANGED <<evars, avars, xvars>>

LoopSpec == LoopInit /\ [][LoopNext]_vars

\* every pending step of the analysis function is eventually taken
LoopFairSpec == LoopSpec /\ WF_vars(LoopNext)

MainInit ==
    /\ ExecIdle
    /\ AnalyzerIdle
    /\ LoopIdle
    /\ mpc = "start"
    /\ argv \in ArgVectors
    /\ api_key \in BOOLEAN
    /\ anthropic_installed \in BOOLEAN
    /\ db_password \in BOOLEAN
    /\ db_up \in BOOLEAN
    /\ db_results \in MainResultSets
    /\ results_file \in (IF argv.from_json = "path" THEN ResultsFiles ELSE {"missing"})
    /\ claude_file \in (IF argv.from_json = "path" THEN ClaudeFiles ELSE {"missing"})
    /\ m_results = <<>>
    /\ claude_analysis = None
    /\ m_analysis = LegacyEmptyAnalysis
    /\ events = <<>>
    /\ llm_args = {}
    /\ GroupIdle
    /\ CliIdle
    /\ GrouperIdle
    /\ ReportIdle
    /\ CallIdle

MainNext ==
    \/ ParseArgs /\ UNCHANGED <<evars, avars, lvars, gvars, cvars, kvars, rvars, fvars>>
    \/ LoadResults /\ UNCHANGED <<evars, avars, lvars, gvars, cvars, kvars, rvars, fvars>>
    \/ LoadClaude /\ UNCHANGED <<evars, avars, lvars, gvars, cvars, kvars, rvars, fvars>>
    \/ ExecuteAllQueries /\ UNCHANGED <<evars, avars, lvars, gvars, cvars, kvars, rvars, fvars>>
    \/ SaveResults /\ UNCHANGED <<evars, avars, lvars, gvars, cvars, kvars, rvars, fvars>>
    \/ AnalyzeWithClaude /\ UNCHANGED <<evars, avars, lvars, gvars, cvars, kvars, rvars, fvars>>
    \/ AnalyzeResults /\ UNCHANGED <<evars, avars, lvars, gvars, cvars, kvars, rvars, fvars>>
    \/ PrintConsoleReport /\ UNCHANGED <<evars, avars, lvars, gvars, cvars, kvars, rvars, fvars>>
    \/ GenerateHtmlReport /\ UNCHANGED <<evars, avars, lvars, gvars, cvars, kvars, rvars, fvars>>

MainSpec == MainInit /\ [][MainNext]_vars

GroupInit ==
    /\ ExecIdle
    /\ AnalyzerIdle
    /\ LoopIdle
    /\ MainIdle
    /\ gpc = "start"
    /\ g_api_key \in BOOLEAN
    /\ g_anthropic_installed \in BOOLEAN
    /\ g_summary \in BOOLEAN
    /\ error_groups_for_analysis \in ListsOfGroups(RegularKeys)
    /\ uncategorized_groups \in ListsOfGroups(UncategorizedKeys)
    /\ regular_answer \in AnswerKinds
    /\ uncategorized_answer \in AnswerKinds
    /\ all_analysis = EmptyMapping
    /\ g_calls = <<>>
    /\ g_ret = None
    /\ CliIdle
    /\ GrouperIdle
    /\ ReportIdle
    /\ CallIdle

GroupNext ==
    \/ GroupPrelude /\ UNCHANGED <<evars, avars, lvars, mvars, cvars, kvars, rvars, fvars>>
    \/ RegularPass /\ UNCHANGED <<evars, avars, lvars, mvars, cvars, kvars, rvars, fvars>>
    \/ UncategorizedPass /\ UNCHANGED <<evars, avars, lvars, mvars, cvars, kvars, rvars, fvars>>
    \/ GroupReturn /\ UNCHANGED <<evars, avars, lvars, mvars, cvars, kvars, rvars, fvars>>

GroupSpec == GroupInit /\ [][GroupNext]_vars

CliInit ==
    /\ ExecIdle
    /\ AnalyzerIdle
    /\ LoopIdle
    /\ MainIdle
    /\ GroupIdle
    /\ cpc = "start"
    /\ c_args \in CliArgs
    /\ c_env \in CliEnvironments
    /\ c_errors \in {0, 1}
    /\ c_model \in {"answers", "raises"}
    /\ c_result = None
    /\ c_status = Running
    /\ GrouperIdle
    /\ ReportIdle
    /\ CallIdle

CliNext ==
    \/ CliParseArgs /\ UNCHANGED <<evars, avars, lvars, mvars, gvars, kvars, rvars, fvars>>
    \/ CliCheckEnvironment /\ UNCHANGED <<evars, avars, lvars, mvars, gvars, kvars, rvars, fvars>>
    \/ CliAnalyze /\ UNCHANGED <<evars, avars, lvars, mvars, gvars, kvars, rvars, fvars>>
    \/ CliReport /\ UNCHANGED <<evars, avars, lvars, mvars, gvars, kvars, rvars, fvars>>

CliSpec == CliInit /\ [][CliNext]_vars

GrouperInit ==
    /\ ExecIdle
    /\ AnalyzerIdle
    /\ LoopIdle
    /\ MainIdle
    /\ GroupIdle
    /\ CliIdle
    /\ kpc = "start"
    /\ k_tasks \in TaskLists \cup TaskPairs
    /\ k_out = None
    /\ ReportIdle
    /\ CallIdle

GrouperNext ==
    \/ GroupErrorsByPattern /\ UNCHANGED <<evars, avars, lvars, mvars, gvars, cvars, rvars, fvars>>
    \/ CreateErrorGroupsForIssue /\ UNCHANGED <<evars, avars, lvars, mvars, gvars, cvars, rvars, fvars>>

GrouperSpec == GrouperInit /\ [][GrouperNext]_vars

ReportInit ==
    /\ ExecIdle
    /\ AnalyzerIdle
    /\ LoopIdle
    /\ MainIdle
    /\ GroupIdle
    /\ CliIdle
    /\ GrouperIdle
    /\ rpc = "start"
    /\ r_issues \in IssueLists
    /\ r_keys = <<>>
    /\ r_claude = None
    /\ r_cards = <<>>
    /\ CallIdle

ReportNext ==
    \/ BuildGroupKeys /\ UNCHANGED <<evars, avars, lvars, mvars, gvars, cvars, kvars, fvars>>
    \/ ReceiveDiagnosis /\ UNCHANGED <<evars, avars, lvars, mvars, gvars, cvars, kvars, fvars>>
    \/ RenderHtmlReport /\ UNCHANGED <<evars, avars, lvars, mvars, gvars, cvars, kvars, fvars>>

ReportSpec == ReportInit /\ [][ReportNext]_vars

ReplayInit ==
    /\ ExecIdle
    /\ AnalyzerIdle
    /\ LoopIdle
    /\ MainIdle
    /\ GroupIdle
    /\ CliIdle
    /\ GrouperIdle
    /\ ReportIdle
    /\ fpc = "start"
    /\ f_args \in [files : SUBSET OtherFiles, run : {NoRun}]
    /\ f_ret = None

ReplayNext ==
    \/ FreshSaveResults /\ UNCHANGED <<evars, avars, lvars, mvars, gvars, cvars, kvars, rvars>>
    \/ FreshAnalyzeWithClaude /\ UNCHANGED <<evars, avars, lvars, mvars, gvars, cvars, kvars, rvars>>
    \/ ReplayFromJson /\ UNCHANGED <<evars, avars, lvars, mvars, gvars, cvars, kvars, rvars>>

ReplaySpec == ReplayInit /\ [][ReplayNext]_vars

GitHubInit ==
    /\ ExecIdle
    /\ AnalyzerIdle
    /\ LoopIdle
    /\ MainIdle
    /\ GroupIdle
    /\ CliIdle
    /\ GrouperIdle
    /\ ReportIdle
    /\ fpc = "start"
    /\ f_args \in [repo : Repositories]
    /\ f_ret = None

GitHubNext ==
    \/ GetCodeContext /\ UNCHANGED <<evars, avars, lvars, mvars, gvars, cvars, kvars, rvars>>
    \/ GetFilesFromStackTrace /\ UNCHANGED <<evars, avars, lvars, mvars, gvars, cvars, kvars, rvars>>

GitHubSpec == GitHubInit /\ [][GitHubNext]_vars

CommonTypeInit ==
    /\ ExecIdle
    /\ AnalyzerIdle
    /\ LoopIdle
    /\ MainIdle
    /\ GroupIdle
    /\ CliIdle
    /\ GrouperIdle
    /\ ReportIdle
    /\ fpc = "start"
    /\ f_args \in [data : CatchAllData]
    /\ f_ret = None

CommonTypeNext ==
    BuildUncategorizedIssue /\ UNCHANGED <<evars, avars, lvars, mvars, gvars, cvars, kvars, rvars>>

CommonTypeSpec == CommonTypeInit /\ [][CommonTypeNext]_vars

(***************************************************************************)
(* Properties of execute_all_queries.                                      *)
(***************************************************************************)
\* execute_all_queries returned after it had obtained a connection and a cursor
ExecReturned == epc = "returned" /\ cursor # "none"

Ids(rows) == {rows[i].id : i \in DOMAIN rows}

\* the typed queries that raised
RaisedTyped == {i \in DOMAIN QUERIES : QUERIES[i].name \in raised}

\* what the database may answer to the typed queries that raised when they
\* are executed without raising
Answers ==
    {a \in [RaisedTyped -> UNION {FetchTyped(QUERIES[i], db) : i \in RaisedTyped}] :
        \A i \in RaisedTyped : a[i] \in FetchTyped(QUERIES[i], db)}

\* the mapping execute_all_queries returns on this table when no query
\* raises: the database answers the queries that did not raise as it did in
\* this run (results[i].data, all_error_rows) and the others with a
NoFailureResults(a) ==
    LET typed == [i \in DOMAIN QUERIES |->
                     TypedSuccess(QUERIES[i],
                                  IF i \in RaisedTyped THEN a[i] ELSE results[i].data)]
        seen == UNION {TrackIds({}, typed[i].data) : i \in DOMAIN typed}
    IN  Append(typed, CatchAllSuccess(all_error_rows, seen))

CatalogNames ==
    [i \in 1..(Len(QUERIES) + 1) |->
        IF i <= Len(QUERIES) THEN QUERIES[i].name ELSE UNCATEGORIZED_ERRORS_QUERY.name]

IsFailureEntry(e) ==
    /\ e.count = 0
    /\ e.data = <<>>
    /\ "error" \in DOMAIN e

\* C1 as stated: when execute_all_queries returns, the mapping has exactly one
\* entry per typed catalog query plus one for UNCATEGORIZED_ERRORS, a query
\* that raised has {count: 0, data: [], error}, and the entries of the queries
\* that did not raise (the catch-all included) are those of a run on the same
\* table in which no query raises.
C1_AsStated ==
    ExecReturned =>
        /\ [i \in DOMAIN results |-> results[i].name] = CatalogNames
        /\ \A i \in DOMAIN results :
              results[i].name \in raised => IsFailureEntry(results[i])
        /\ \E a \in Answers :
              \A i \in DOMAIN results :
                  results[i].name \notin raised => results[i] = NoFailureResults(a)[i]

\* C1 amended: as above for the names and the entries of the queries that
\* raised; the entry of a typed query that did not raise is the entry of that
\* query for one of the row lists the database may answer with on this table;
\* the UNCATEGORIZED_ERRORS entry, when the catch-all did not raise, counts in
\* total_before_filter the rows the database answered with and holds at least
\* the rows it holds in any run without failure.
C1_Amended ==
    ExecReturned =>
        /\ [i \in DOMAIN results |-> results[i].name] = CatalogNames
        /\ \A i \in DOMAIN results :
              IF results[i].name \in raised
              THEN IsFailureEntry(results[i])
              ELSE IF i <= Len(QUERIES)
              THEN \E rows \in FetchTyped(QUERIES[i], db) :
                      results[i] = TypedSuccess(QUERIES[i], rows)
              ELSE /\ all_error_rows \in FetchCatchAll(db)
                   /\ results[i].total_before_filter = Len(all_error_rows)
                   /\ results[i].count = Len(results[i].data)
                   /\ \A a \in Answers :
                         Ids(NoFailureResults(a)[i].data) \subseteq Ids(results[i].data)

\* the WMS query raised, the later CREATION query returned a row, and the
\* catch-all entry holds a row that every run without failure filters out
C1_Witness ==
    /\ ExecReturned
    /\ raised = {"WMS"}
    /\ IsFailureEntry(Entry(results, "WMS"))
    /\ Entry(results, "CREATION").count > 0
    /\ UNCATEGORIZED_ERRORS_QUERY.name \notin raised
    /\ \A a \in Answers :
          Entry(results, UNCATEGORIZED_ERRORS_QUERY.name).count
              > NoFailureResults(a)[Len(QUERIES) + 1].count

\* C2 as stated: after execute_all_queries returns, no row of the
\* UNCATEGORIZED_ERRORS data has the id of a row returned by a typed query of
\* the same run, for every id value including 0, and the catch-all query is
\* executed only after every typed query.
C2_AsStated ==
    /\ \A i \in DOMAIN executed :
          executed[i] = UNCATEGORIZED_ERRORS_QUERY.name => i = Len(QUERIES) + 1
    /\ ExecReturned =>
          \A i \in 1..Len(QUERIES) :
              Ids(results[i].data)
                  \cap Ids(Entry(results, UNCATEGORIZED_ERRORS_QUERY.name).data) = {}

\* task t is among the rows the query returns on this table
Returned(rows, t) == t.id \in Ids(rows)

\* C3 as stated, for the runs in which no query raised and for the tasks a
\* typed query returned: a task that a typed query returned and that the
\* catch-all query returned as well is absent from the filtered
\* UNCATEGORIZED_ERRORS result, and filtered_count is at least 1.
C3_AsStated ==
    (ExecReturned /\ raised = {}) =>
        \A i \in DOMAIN QUERIES : \A k \in DOMAIN db :
            (Returned(results[i].data, db[k]) /\ Returned(all_error_rows, db[k])) =>
                LET catchall == Entry(results, UNCATEGORIZED_ERRORS_QUERY.name)
                IN  /\ ~Returned(catchall.data, db[k])
                    /\ catchall.filtered_count >= 1

\* C4 as stated: whenever execute_all_queries has obtained a connection and
\* then returns or raises, the connection is closed and the cursor is not
\* left open, whatever step failed (cursor creation included).
C4_AsStated ==
    (epc \in {"returned", "raised"} /\ connection # "none") =>
        connection = "closed" /\ cursor # "open"

(***************************************************************************)
(* Properties of analyze_results.                                          *)
(***************************************************************************)
Analyzed == apc \in {"analyzed", "loaded", "done"}

\* a typed result with at least one row
TypedWithRows(r) == ~IsCatchAll(r) /\ r.count >= 1 /\ Len(r.data) >= 1

\* the age of the oldest row is known and is at most 15 days
NotOlderThan15Days(r) ==
    r.data[1].last_run.kind = "datetime" /\ r.data[1].last_run.hours <= 15 * 24

\* C5 as stated: a typed result with count >= 1 whose first row has a last_run
\* strictly more than 15 days before now is in the critical bucket, for every
\* age above 15 days, including ages between 15 and 16 days.
C5_AsStated ==
    Analyzed =>
        \A i \in DOMAIN in_results :
            (/\ TypedWithRows(in_results[i])
             /\ in_results[i].data[1].last_run.kind = "datetime"
             /\ in_results[i].data[1].last_run.hours > 15 * 24) =>
                BucketsOf(analysis, in_results[i].name) = {"critical"}

\* C6: for a typed result whose oldest row is not older than 15 days the bucket
\* is critical when count > 10, otherwise high when count >= 5 or the name is
\* LIVERPOOL_CONFIRM or WMS, otherwise medium when count >= 2.
C6_BucketOrder ==
    Analyzed =>
        \A i \in DOMAIN in_results :
            LET r == in_results[i]
            IN  (TypedWithRows(r) /\ NotOlderThan15Days(r)) =>
                    /\ r.count > 10 => BucketsOf(analysis, r.name) = {"critical"}
                    /\ (r.count <= 10 /\ (r.count >= 5 \/ r.name \in {"LIVERPOOL_CONFIRM", "WMS"}))
                          => BucketsOf(analysis, r.name) = {"high"}
                    /\ (r.count < 5 /\ r.count >= 2 /\ r.name \notin {"LIVERPOOL_CONFIRM", "WMS"})
                          => BucketsOf(analysis, r.name) = {"medium"}

\* TOKEN with 10 rows and WMS with 2 rows, none older than 15 days, both high
C6_Witness ==
    /\ Analyzed
    /\ Len(in_results) = 2
    /\ in_results[1].name = "TOKEN" /\ in_results[1].count = 10
    /\ NotOlderThan15Days(in_results[1])
    /\ in_results[2].name = "WMS" /\ in_results[2].count = 2
    /\ NotOlderThan15Days(in_results[2])
    /\ [i \in 1..2 |-> analysis.high[i].name] = <<"TOKEN", "WMS">>

\* a typed result, not LIVERPOOL_CONFIRM or WMS, of exactly one row that is
\* not older than 15 days
SingleFreshRow(r) ==
    /\ TypedWithRows(r)
    /\ r.count = 1
    /\ r.name \notin {"LIVERPOOL_CONFIRM", "WMS"}
    /\ NotOlderThan15Days(r)

\* C7 as stated: such a result produces no entry in any bucket.
C7_AsStated ==
    Analyzed =>
        \A i \in DOMAIN in_results :
            SingleFreshRow(in_results[i]) => BucketsOf(analysis, in_results[i].name) = {}

\* C7 amended: such a result produces exactly one entry, in the ok bucket, and
\* none in critical, high, medium or uncategorized; the entry is a full issue
\* (it carries the sample rows), not the reduced shape of an empty result.
C7_Amended ==
    Analyzed =>
        \A i \in DOMAIN in_results :
            SingleFreshRow(in_results[i]) =>
                /\ BucketsOf(analysis, in_results[i].name) = {"ok"}
                /\ Occurrences(analysis, in_results[i].name) = 1
                /\ \E j \in DOMAIN analysis.ok :
                      /\ analysis.ok[j].name = in_results[i].name
                      /\ analysis.ok[j].count = 1
                      /\ "data" \in DOMAIN analysis.ok[j]

\* TOKEN with one row of age 0 has been analyzed
C7_Witness ==
    /\ Analyzed
    /\ \E i \in DOMAIN in_results :
          /\ in_results[i].name = "TOKEN"
          /\ SingleFreshRow(in_results[i])
          /\ in_results[i].data[1].last_run.hours = 0
    /\ Len(analysis.ok) >= 1

\* C8 as stated: analysing the reloaded result set puts every query in the
\* same bucket as analysing the in-memory result set.
C8_AsStated ==
    apc = "done" =>
        \A i \in DOMAIN in_results :
            BucketsOf(replay_analysis, in_results[i].name)
                = BucketsOf(analysis, in_results[i].name)

(***************************************************************************)
(* Properties of the tool-calling loop.                                    *)
(***************************************************************************)
LoopEnded == lpc \in {"returned", "raised"}

\* what the function hands back when every response asked for a tool
BoundedResult ==
    IF fn = "analyze_with_claude"
    THEN \/ ret = None
         \/ "tool_iterations" \in DOMAIN ret /\ ret.tool_iterations = 10
    ELSE "tool_iterations" \in DOMAIN ret /\ ret.tool_iterations = 10

\* C9: the loop counter never exceeds 10; when every response of the model
\* requested a tool the function returns after exactly 10 tool round trips
\* (11 model calls) with a parsed result or None; and every run ends.
C9_ToolLoopBound ==
    /\ [](iteration <= 10)
    /\ []((lpc = "returned" /\ all_tool_use /\ model_calls > 0) =>
            (iteration = 10 /\ model_calls = 11 /\ BoundedResult))
    /\ <>LoopEnded

\* a run in which all 11 responses requested a tool has returned
C9_Witness ==
    /\ lpc = "returned"
    /\ all_tool_use
    /\ iteration = 10
    /\ model_calls = 11
    /\ Len(messages) = 21

\* the tool call of this block fails: a credential is missing when the client
\* is built, a required input field is missing, or the remote call raises
ToolCallFails(block, e) ==
    /\ block.type = "tool_use"
    /\ \/ block.name.prefix = "newrelic_" /\ ~e.newrelic
       \/ block.name.prefix = "github_" /\ ~e.github
       \/ /\ block.name.prefix \in {"newrelic_", "github_"}
          /\ block.input \in {"missing_field", "failing"}

IsErrorEnvelope(r) ==
    /\ DOMAIN r = {"success", "error"}
    /\ r.success = FALSE

\* C10: in every iteration of the loop, each failed tool call becomes a
\* {success: false, error} tool result with the id of its tool_use block in the
\* user message appended to the conversation, and the next model call is made.
C10_ToolFailureContinues ==
    [][(lpc = "loop" /\ LoopGuard(response, iteration)) =>
          /\ iteration' = iteration + 1
          /\ model_calls' = model_calls + 1
          /\ Len(messages') = Len(messages) + 2
          /\ messages'[Len(messages') - 1] = [role |-> "assistant", content |-> response.content]
          /\ messages'[Len(messages')].role = "user"
          /\ \A i \in DOMAIN response.content :
                ToolCallFails(response.content[i], env) =>
                    \E j \in DOMAIN messages'[Len(messages')].content :
                        LET tr == messages'[Len(messages')].content[j]
                        IN  /\ tr.tool_use_id = response.content[i].id
                            /\ IsErrorEnvelope(tr.content)]_vars

\* a tool call failed on a missing input field, its error envelope is in the
\* conversation, and the model was called again and answered
C10_Witness ==
    /\ lpc = "loop"
    /\ model_calls = 2
    /\ Len(messages) = 3
    /\ env.newrelic
    /\ \E i \in DOMAIN messages[2].content :
          /\ messages[2].content[i].type = "tool_use"
          /\ messages[2].content[i].input = "missing_field"
          /\ ToolCallFails(messages[2].content[i], env)
          /\ \E j \in DOMAIN messages[3].content :
                /\ messages[3].content[j].tool_use_id = messages[2].content[i].id
                /\ IsErrorEnvelope(messages[3].content[j].content)

(***************************************************************************)
(* Properties of run_health_check.main.                                    *)
(***************************************************************************)
Fresh == argv.from_json = "no"

Replay == argv.from_json # "no"

MainEnded == mpc \in {"exit0", "exit1", "crashed"}

Happened(e) == e \in Range(events)

\* C11 as stated: a fresh run without ANTHROPIC_API_KEY whose database queries
\* return ends without a process-level error, having made no LLM call and
\* written no analysis file, having printed the console report and, unless
\* --console-only, written the HTML report, with no diagnosis block.
C11_AsStated ==
    (Fresh /\ ~api_key /\ db_password /\ db_up /\ MainEnded) =>
        /\ mpc = "exit0"
        /\ ~Happened("llm_call")
        /\ ~Happened("save_json(claude_analysis)")
        /\ Happened("print_console_report")
        /\ ~argv.console_only => Happened("generate_html_report")
        /\ DiagnosisBlocks(m_analysis, claude_analysis) = {}

\* C12: in replay mode no database query is executed, the LLM client is not
\* invoked and no results or analysis file is written, with or without
\* --no-ai; a diagnosis, if any, was loaded from the diagnosis file.
C12_ReplayFrame ==
    Replay =>
        /\ ~Happened("execute_all_queries")
        /\ ~Happened("save_json(results)")
        /\ ~Happened("analyze_with_claude")
        /\ ~Happened("llm_call")
        /\ ~Happened("save_json(claude_analysis)")
        /\ llm_args = {}
        /\ claude_analysis # None => Happened("load_json(claude_file)")

\* a replay without --no-ai and with the API key set has loaded a diagnosis,
\* written the HTML report and exited 0
C12_Witness ==
    /\ argv.from_json = "path"
    /\ ~argv.no_ai
    /\ api_key
    /\ mpc = "exit0"
    /\ claude_analysis # None
    /\ summary_data(m_results) # {}
    /\ Happened("generate_html_report")

ResultsFileUnusable ==
    \/ argv.from_json = "no_path"
    \/ argv.from_json = "path" /\ results_file \in {"missing", "malformed", "unreadable"}

\* the exit status of the process: sys.exit(1) and an exception that nothing
\* catches (a traceback) both end it with status 1
ExitStatus == IF mpc = "exit0" THEN 0 ELSE 1

\* C13: a replay whose results file is missing, is not JSON or cannot be
\* read, or whose --from-json has no path, can only end with exit status 1
\* (sys.exit(1), or the traceback of an unreadable file) and never runs the
\* analyzer nor produces a console report or an HTML file; a missing or
\* unreadable diagnosis file does not end the run, which goes on to the
\* analyzer without AI data.
C13_ReplayFileErrors ==
    /\ ResultsFileUnusable =>
          /\ mpc \in {"start", "load_results"} \/ (MainEnded /\ ExitStatus = 1)
          /\ events = <<>>
    /\ (Replay /\ mpc = "exit1") => ResultsFileUnusable
    /\ (argv.from_json = "path" /\ results_file = "valid"
          /\ claude_file \in {"missing", "unreadable"}) =>
          /\ mpc # "exit1"
          /\ claude_analysis = None
          /\ Happened("load_json(results_file)") => mpc # "load_results"

\* the replay of a malformed results file has exited 1; --no-ai was not given
C13_Witness ==
    /\ argv.from_json = "path"
    /\ results_file = "malformed"
    /\ claude_file = "valid"
    /\ mpc = "exit1"

\* position of the first occurrence of an event, 0 when it did not happen
FirstAt(e) ==
    IF Happened(e) THEN CHOOSE i \in DOMAIN events :
                            events[i] = e /\ \A j \in 1..(i - 1) : events[j] # e
    ELSE 0

\* C14 as stated: in a fresh run without --no-ai the steps are execute all
\* queries, persist the raw results, run the analyzer, invoke the LLM client;
\* the LLM client is invoked only after the analyzer has run and receives the
\* raw results and the categorized analysis.
C14_AsStated ==
    (Fresh /\ ~argv.no_ai /\ Happened("analyze_with_claude")) =>
        /\ Happened("analyze_results")
        /\ FirstAt("execute_all_queries") < FirstAt("save_json(results)")
        /\ FirstAt("save_json(results)") < FirstAt("analyze_results")
        /\ FirstAt("analyze_results") < FirstAt("analyze_with_claude")
        /\ llm_args = {"results", "analysis"}

(***************************************************************************)
(* Properties of the group-based client.                                   *)
(***************************************************************************)
Parsed(kind) == kind \in {"all", "shared", "empty"}

\* the sub-call gave no mapping: its answer is not JSON, or the call raised
Malformed(kind) == kind \in {"garbage", "raises"}

\* every diagnosis of the mapping sub is in the mapping an, and nothing else
Exactly(an, sub) == DOMAIN an = DOMAIN sub /\ \A k \in DOMAIN sub : an[k] = sub[k]

\* C15: when both sub-calls were made and exactly one of them gave no mapping,
\* the client returns a record with metadata whose analysis mapping holds all
\* the diagnoses of the sub-call that parsed, and only those; this holds for
\* either sub-call failing.
C15_SubCallIsolation ==
    (gpc = "returned" /\ g_calls = <<"regular", "uncategorized">>) =>
        /\ g_ret # None
        /\ g_ret.analysis_type = "error_groups"
        /\ g_ret.total_error_groups = Len(error_groups_for_analysis)
        /\ (Malformed(regular_answer) /\ Parsed(uncategorized_answer)) =>
              Exactly(g_ret.analysis,
                      analyze_uncategorized_groups(uncategorized_groups, uncategorized_answer))
        /\ (Parsed(regular_answer) /\ Malformed(uncategorized_answer)) =>
              Exactly(g_ret.analysis,
                      analyze_regular_groups(error_groups_for_analysis, regular_answer))

\* the regular-groups call parsed, the uncategorized-groups call answered with
\* text that is not JSON, and the record returned holds the two regular diagnoses
C15_Witness ==
    /\ gpc = "returned"
    /\ g_calls = <<"regular", "uncategorized">>
    /\ regular_answer = "all"
    /\ uncategorized_answer = "garbage"
    /\ g_ret # None
    /\ DOMAIN g_ret.analysis = RegularKeys

(***************************************************************************)
(* Properties of the single-error CLI.                                     *)
(***************************************************************************)
\* C16 as stated: the CLI exits with status 1 exactly when neither --task-id
\* nor --pattern is given, or the LLM key is missing, or, on the pattern-only
\* path, the APM integration is unconfigured or no matching error is found;
\* with --task-id and the LLM key, absent APM credentials do not make it exit 1.
\* (Stated for the runs in which no model call raises.)
C16_AsStated ==
    (cpc = "exited" /\ c_model = "answers") =>
        (c_status = 1 <=>
            \/ ~c_args.task_id /\ ~c_args.pattern
            \/ ~c_env.api_key
            \/ /\ ~c_args.task_id
               /\ c_args.pattern
               /\ (~c_env.newrelic \/ c_errors = 0))

(***************************************************************************)
(* Properties of the error grouper.                                        *)
(***************************************************************************)
\* the rows of the input that fall in the group of exception e and pattern p,
\* by position
Members(e, p) ==
    {i \in 1..Len(k_tasks) :
        /\ k_tasks[i].exception = e
        /\ normalize_error_message(k_tasks[i].error_message) = p}

\* the n smallest positions of a set hold exactly the ids in ids, in order
FirstOf(members, ids) ==
    /\ Len(ids) = Min(Cardinality(members), 10)
    /\ \A j \in 1..Len(ids) :
          /\ ids[j] \in members
          /\ Cardinality({i \in members : i < ids[j]}) = j - 1

RECURSIVE SumCounts(_)
SumCounts(groups) ==
    IF groups = <<>> THEN 0 ELSE Head(groups).count + SumCounts(Tail(groups))

IsPartition(groups) ==
    /\ \A i \in 1..Len(k_tasks) : \E j \in 1..Len(groups) :
          /\ groups[j].exception = k_tasks[i].exception
          /\ groups[j].pattern = normalize_error_message(k_tasks[i].error_message)
    /\ \A j, k \in 1..Len(groups) :
          (groups[j].exception = groups[k].exception
              /\ groups[j].pattern = groups[k].pattern) => j = k
    /\ \A j \in 1..Len(groups) :
          LET members == Members(groups[j].exception, groups[j].pattern)
          IN  /\ members # {}
              /\ groups[j].count = Cardinality(members)
              /\ FirstOf(members, groups[j].task_ids)
              /\ groups[j].example_task.id \in members
              /\ \A i \in members : groups[j].example_task.id <= i
    /\ SumCounts(groups) = Len(k_tasks)
    /\ \A j \in 1..Len(groups) - 1 : groups[j].count >= groups[j + 1].count

\* C17 as stated: create_error_groups_for_issue returns, for every list of
\* tasks, one group per distinct (exception, normalized message) pair, with
\* counts that sum to the number of tasks, task_ids the first min(count, 10)
\* ids in input order, the first task as example, in non-increasing count order.
C17_AsStated ==
    kpc = "created" =>
        /\ k_out # Raised
        /\ IsPartition(k_out.value)

\* two rows of one exception whose messages differ in the number only
IsPair ==
    /\ Len(k_tasks) = 2
    /\ k_tasks[1].exception = k_tasks[2].exception
    /\ \A i \in 1..2 : k_tasks[i].error_message \notin {NoMessage, EmptyMessage}
    /\ k_tasks[1].error_message.lead = k_tasks[2].error_message.lead
    /\ k_tasks[1].error_message.number # k_tasks[2].error_message.number

SamePattern ==
    /\ normalize_error_message(k_tasks[1].error_message)
          = normalize_error_message(k_tasks[2].error_message)
    /\ Len(k_out.value) = 1
    /\ k_out.value[1].count = 2

\* C18 as stated: two messages that differ only in an embedded numeric id, of
\* any length and with or without a keyword before it, get the same pattern,
\* and two tasks of one exception with such messages land in the same group.
\* (Stated for ids that do not continue a word.)
C18_AsStated ==
    (kpc = "grouped" /\ IsPair /\ Standalone(k_tasks[1].error_message.lead))
        => SamePattern

\* the number follows one of the keywords (with an optional # or :), a #,
\* or id=
Introduced(l) ==
    \/ l.word \in Keywords /\ l.mark \in {"", "#", ":"}
    \/ l.mark = "#" /\ l.space2 = ""
    \/ l.word = "id" /\ l.mark = "="

\* C18 amended: the two messages get the same pattern, and the two tasks land
\* in the same group, when the id follows a keyword, a # or id=, or when both
\* ids are standalone numbers of five or more digits.
C18_Amended ==
    (/\ kpc = "grouped"
     /\ IsPair
     /\ \/ Introduced(k_tasks[1].error_message.lead)
        \/ /\ Standalone(k_tasks[1].error_message.lead)
           /\ \A i \in 1..2 : Len(k_tasks[i].error_message.number) >= 5)
        => SamePattern

\* two messages without keyword, with different numbers of five digits or
\* more, grouped together
C18_Witness ==
    /\ kpc = "grouped"
    /\ IsPair
    /\ k_tasks[1].error_message.lead.word = ""
    /\ \A i \in 1..2 : Len(k_tasks[i].error_message.number) >= 5
    /\ Len(k_out.value) = 1
    /\ k_out.value[1].pattern = "failed {ID} now"
    /\ k_out.value[1].task_ids = <<1, 2>>

(***************************************************************************)
(* Failed queries in the analysis.                                         *)
(***************************************************************************)
\* the result the executor records for a query that ran and found no row
RanEmpty(result) ==
    [name |-> result.name, count |-> 0, data |-> <<>>,
     description |-> result.description]

\* C19 as stated: a typed query whose execution failed keeps its error
\* annotation through analyze_results: the analysis differs from the one of
\* the same results with that query having run and returned zero rows, and the
\* query is not listed as a healthy (ok) category.
C19_AsStated ==
    apc = "analyzed" =>
        \A i \in DOMAIN in_results :
            "error" \in DOMAIN in_results[i] =>
                /\ analysis # analyze_results([in_results EXCEPT ![i] = RanEmpty(@)])
                /\ "ok" \notin BucketsOf(analysis, in_results[i].name)
                /\ \A j \in DOMAIN ok_names(analysis) :
                      ok_names(analysis)[j] # in_results[i].name

(***************************************************************************)
(* How the tool loop is left.                                              *)
(***************************************************************************)
\* a step that leaves the started loop
LeavesLoop == lpc = "loop" /\ lpc' # "loop"

\* the latest response does not request a tool, or ten iterations are consumed
RegularExit == response.stop_reason # "tool_use" \/ iteration = 10

\* what is returned is made of the latest response
LatestResponseIsAnswer ==
    /\ response' = response
    /\ iteration' = iteration
    /\ lpc' = "returned"
    /\ IF fn = "analyze_single_error"
       THEN /\ ret' # None
            /\ ret'.analysis = ResponseText(response.content, 1)
            /\ ret'.tool_iterations = iteration
       ELSE IF ParsesAsJson(ResponseText(response.content, 1))
            THEN ret' # None /\ ret'.tool_iterations = iteration
            ELSE ret' = None

\* C20 as stated: the started loop is left only because the latest response
\* requests no tool or because ten iterations are consumed, never through an
\* exception of a model call made inside the loop or a tool failure, and the
\* latest response is then the final answer.
C20_AsStated ==
    [][LeavesLoop => (RegularExit /\ LatestResponseIsAnswer)]_vars

\* a model call made inside the loop raised: the iteration was begun, no
\* answer is returned; analyze_with_claude returns None, analyze_single_error
\* lets the exception out
ModelCallRaised ==
    /\ response.stop_reason = "tool_use"
    /\ iteration < 10
    /\ iteration' = iteration + 1
    /\ model_calls' = model_calls + 1
    /\ response' = response
    /\ ret' = None
    /\ lpc' = IF fn = "analyze_with_claude" THEN "returned" ELSE "raised"

\* some tool call of the latest response fails
SomeToolFails ==
    \E i \in DOMAIN response.content :
        /\ response.content[i].type = "tool_use"
        /\ "error" \in DOMAIN Dispatch(response.content[i].name,
                                        response.content[i].input, env)

\* C20 amended: the started loop is left only because the latest response
\* requests no tool, because ten iterations are consumed, or because a model
\* call made inside the loop raises; in the first two exits the latest
\* response is the final answer, in the third nothing is returned.  A tool
\* failure alone never ends the loop: when the model answers, the loop goes on.
C20_Amended ==
    [][/\ LeavesLoop =>
            \/ RegularExit /\ LatestResponseIsAnswer
            \/ ModelCallRaised
       /\ (lpc = "loop" /\ SomeToolFails /\ ~RegularExit /\ response' # response)
            => lpc' = "loop"]_vars

\* analyze_single_error left its loop through a raising model call after two
\* completed iterations
C20_Witness ==
    /\ fn = "analyze_single_error"
    /\ lpc = "raised"
    /\ iteration = 3
    /\ model_calls = 4
    /\ response.stop_reason = "tool_use"
    /\ Len(messages) = 7

(***************************************************************************)
(* The tool results fed back to the model.                                 *)
(***************************************************************************)
IsSuccessEnvelope(r) ==
    /\ DOMAIN r = {"success", "data"}
    /\ r.success = TRUE

\* the tool results of the conversation: the content of every user message
\* after the prompt
ToolResultsFedBack ==
    UNION {Range(messages[i].content) : i \in {j \in DOMAIN messages : j > 1 /\ j % 2 = 1}}

\* C21 as stated: every tool result fed back to the model is {success: true,
\* data} or {success: false, error}, also for a tool whose name has neither
\* prefix and for a known prefix with an unknown operation.
C21_AsStated ==
    \A tr \in ToolResultsFedBack :
        IsSuccessEnvelope(tr.content) \/ IsErrorEnvelope(tr.content)

(***************************************************************************)
(* The shape of the conversation.                                          *)
(***************************************************************************)
\* the user message at position u answers the assistant message before it:
\* one tool_result per tool_use block, in the same order, with the same id
AnswersToolUses(assistant, user) ==
    LET uses == SelectSeq(assistant.content, LAMBDA b : b.type = "tool_use")
    IN  /\ Len(user.content) = Len(uses)
        /\ \A j \in 1..Len(uses) :
              /\ user.content[j].type = "tool_result"
              /\ user.content[j].tool_use_id = uses[j].id

\* after k completed iterations the conversation holds 1 + 2k messages
\* with roles user, assistant, user, ..., ending with a user message, and each
\* iteration has appended the assistant's tool-use message and then one user
\* message with exactly one tool_result per tool_use block, in order, with the
\* same tool_use_id.
ConversationShape ==
    messages # <<>> =>
        /\ Len(messages) = 1 + 2 * iteration
        /\ \A i \in DOMAIN messages :
              messages[i].role = IF i % 2 = 1 THEN "user" ELSE "assistant"
        /\ messages[Len(messages)].role = "user"
        /\ \A k \in 1..iteration :
              /\ messages[2 * k].content # <<>>
              /\ AnswersToolUses(messages[2 * k], messages[2 * k + 1])

\* an iteration appends exactly the assistant message made of the latest
\* response and the user message answering it, and calls the model
IterationAppends ==
    iteration' = iteration + 1 =>
        /\ Len(messages') = Len(messages) + 2
        /\ SubSeq(messages', 1, Len(messages)) = messages
        /\ messages'[Len(messages) + 1] =
              [role |-> "assistant", content |-> response.content]
        /\ AnswersToolUses(messages'[Len(messages) + 1], messages'[Len(messages) + 2])
        /\ model_calls' = model_calls + 1

\* C22: the conversation always has the shape above, and every iteration
\* appends the assistant message and the answering user message before the
\* model is invoked again.
C22_Conversation == []ConversationShape /\ [][IterationAppends]_vars

\* two iterations are completed; the second response held a text block and
\* two tool_use blocks, answered by two tool results
C22_Witness ==
    /\ iteration = 2
    /\ Len(messages) = 5
    /\ Len(messages[4].content) = 3
    /\ messages[4].content[1].type = "text"
    /\ Len(messages[5].content) = 2
    /\ messages[5].content[2].tool_use_id = messages[4].content[3].id

(***************************************************************************)
(* Every result in one bucket.                                             *)
(***************************************************************************)
\* the bucket placement of the results in a returned analysis
OneBucketEach(res, an) ==
    \A i \in DOMAIN res :
        LET r == res[i]
        IN  IF IsCatchAll(r)
            THEN /\ BucketsOf(an, r.name) \subseteq {"uncategorized"}
                 /\ Occurrences(an, r.name) = IF r.count > 0 THEN 1 ELSE 0
            ELSE /\ Occurrences(an, r.name) = 1
                 /\ Cardinality(BucketsOf(an, r.name)) = 1
                 /\ BucketsOf(an, r.name) \subseteq {"critical", "high", "medium", "ok"}

\* C23 as stated: analyze_results puts each typed result exactly once in
\* exactly one of critical, high, medium, ok, and the catch-all result once in
\* uncategorized when its count is above 0 and in no bucket otherwise.
C23_AsStated ==
    apc \in {"analyzed", "crashed"} =>
        /\ apc = "analyzed"
        /\ OneBucketEach(in_results, analysis)

(***************************************************************************)
(* Diagnosis keys and the diagnosis blocks of the HTML report.             *)
(***************************************************************************)
\* the groups of the analysis: issue position and group position
GroupsOfAnalysis ==
    {<<i, j>> : i \in DOMAIN r_issues, j \in 1..MaxGroups} \cap
    {p \in (DOMAIN r_issues) \X (1..MaxGroups) : p[2] \in DOMAIN r_issues[p[1]].error_groups}

\* C24 as stated: two distinct error groups of one analysis never share the
\* key '{issue_name}::{exception}::{pattern[:30]}' under which the diagnosis
\* is requested and looked up, nor, within one issue, the grouper's own key
\* '{exception}::{pattern[:50]}'.
C24_AsStated ==
    rpc # "start" =>
        \A p, q \in GroupsOfAnalysis :
            p # q =>
                /\ GroupKey(r_issues[p[1]].name, r_issues[p[1]].error_groups[p[2]])
                      # GroupKey(r_issues[q[1]].name, r_issues[q[1]].error_groups[q[2]])
                /\ p[1] = q[1] =>
                      r_issues[p[1]].error_groups[p[2]].group_key
                          # r_issues[q[1]].error_groups[q[2]].group_key
                /\ Len(r_keys) = Cardinality(Range(r_keys))

\* C25 as stated: for every issue of a severity bucket and every error group
\* of it, if the diagnosis mapping holds a diagnosis under the group's key,
\* the group's card shows that diagnosis, whatever client produced the record.
C25_AsStated ==
    (rpc = "rendered" /\ r_claude # None) =>
        \A p \in GroupsOfAnalysis :
            LET issue == r_issues[p[1]]
                key == GroupKey(issue.name, issue.error_groups[p[2]])
            IN  (\E i \in DOMAIN r_claude.analysis :
                    r_claude.analysis[i].key = key /\ r_claude.analysis[i].filled) =>
                    \E c \in DOMAIN r_cards :
                        /\ r_cards[c].issue = issue.name
                        /\ r_cards[c].group = p[2]
                        /\ r_cards[c].diagnosis = key

\* C26 as stated: a diagnosis shown in an error-group card has the group's
\* key, or the group's issue name as its first component; a diagnosis of one
\* issue is never shown under a group of another issue.
C26_AsStated ==
    rpc = "rendered" =>
        \A c \in DOMAIN r_cards :
            r_cards[c].diagnosis # None =>
                \/ r_cards[c].diagnosis = r_cards[c].group_key
                \/ r_cards[c].diagnosis.issue = r_cards[c].issue
(***************************************************************************)
(* The diagnosis file of a replay.                                         *)
(***************************************************************************)
\* C27 as stated: a replay given the results path that save_json returned
\* for a fresh run that had saved its results and its diagnosis before the
\* replay loads that diagnosis; and a replay whose path contains neither
\* 'results_' nor '/data/' does not load the results file itself as the
\* diagnosis.
C27_AsStated ==
    fpc = "replayed" =>
        /\ ( /\ f_ret.run # NoRun
             /\ f_ret.run.diagnosis_saved
             /\ f_ret.results_file = f_ret.run.results_file )
              => f_ret.claude_analysis = ClaudeData(f_ret.run.timestamp)
        /\ ( /\ ~ str_contains(f_ret.results_file, <<"results_">>)
             /\ ~ str_contains(f_ret.results_file, <<"/", "data", "/">>) )
              => /\ Resolve(f_ret.claude_file) # Resolve(f_ret.results_file)
                 /\ f_ret.claude_analysis # f_ret.results

(***************************************************************************)
(* The files returned for a stack trace.                                   *)
(***************************************************************************)
\* the distinct paths of the project-code frames, in trace order
RECURSIVE DistinctPaths(_, _)
DistinctPaths(frames, seen) ==
    IF frames = <<>> THEN <<>>
    ELSE IF ~ Head(frames).is_project_code \/ Head(frames).file_path \in seen
         THEN DistinctPaths(Tail(frames), seen)
         ELSE <<Head(frames).file_path>>
                 \o DistinctPaths(Tail(frames), seen \cup {Head(frames).file_path})

\* C28 as stated: get_files_from_stack_trace de-duplicates the project-code
\* frames by path before it applies max_files: it returns the code of the
\* first max_files distinct project paths of the trace whose file can be
\* fetched, in trace order, so repeated frames of one file do not reduce the
\* number of files returned; it returns at most max_files entries and no two
\* entries for one path.
C28_AsStated ==
    (fpc = "returned" /\ f_ret.fn = "get_files_from_stack_trace") =>
        LET CanFetch(path) ==
                get_code_context(f_args.repo, path, 1, DefaultContextLines) # None
            distinct == DistinctPaths(parse_stack_trace(f_ret.stack_trace), {})
            expected == SelectSeq(Take(distinct, f_ret.max_files), CanFetch)
            returned == [k \in DOMAIN f_ret.value |-> f_ret.value[k].code.file_path]
        IN  /\ returned = expected
            /\ Len(returned) <= f_ret.max_files
            /\ Cardinality(Range(returned)) = Len(returned)

(***************************************************************************)
(* The window of get_code_context.                                         *)
(***************************************************************************)
\* the entries of a context that are marked as the target line
TargetEntries(context) == {k \in DOMAIN context : context[k].is_target}

\* C29: for a fetched file of total_lines >= 1 lines, line_number >= 1 and
\* context_lines >= 0, get_code_context reports
\* start_line = max(1, line_number - context_lines) and
\* end_line = min(total_lines, line_number + context_lines); the context holds
\* exactly the lines start_line..end_line of the file in ascending order, each
\* within 1..total_lines, and is_target is true on exactly the entry numbered
\* line_number when line_number <= total_lines and on no entry otherwise.
C29_Window ==
    (fpc = "returned" /\ f_ret.fn = "get_code_context" /\ f_ret.value # None) =>
        LET v == f_ret.value
            file == get_file_content(f_args.repo, f_ret.file_path).content
            total_lines == Len(file)
            first == IF f_ret.line_number - f_ret.context_lines > 1
                     THEN f_ret.line_number - f_ret.context_lines ELSE 1
            last == IF f_ret.line_number + f_ret.context_lines < total_lines
                    THEN f_ret.line_number + f_ret.context_lines ELSE total_lines
        IN  /\ total_lines >= 1
            /\ v.total_lines = total_lines
            /\ v.start_line = first
            /\ v.end_line = last
            /\ Len(v.context) = (IF last >= first THEN last - first + 1 ELSE 0)
            /\ \A k \in DOMAIN v.context :
                  /\ v.context[k].line_number = first + k - 1
                  /\ v.context[k].line_number \in 1..total_lines
                  /\ v.context[k].content = file[v.context[k].line_number]
                  /\ v.context[k].is_target <=> (v.context[k].line_number = f_ret.line_number)
            /\ Cardinality(TargetEntries(v.context))
                  = (IF f_ret.line_number <= total_lines THEN 1 ELSE 0)

\* a context cut at both ends of the file, with its target line inside
C29_Witness ==
    /\ fpc = "returned"
    /\ f_ret.fn = "get_code_context"
    /\ f_ret.value # None
    /\ f_ret.line_number - f_ret.context_lines < 1
    /\ f_ret.line_number + f_ret.context_lines > f_ret.value.total_lines
    /\ f_ret.value.start_line = 1
    /\ f_ret.value.end_line = f_ret.value.total_lines
    /\ Len(f_ret.value.context) >= 3
    /\ TargetEntries(f_ret.value.context) = {2}

(***************************************************************************)
(* The common type of the groups of the catch-all issue.                   *)
(***************************************************************************)
\* the tasks of the data that an error group stands for
TasksOfGroup(data, g) ==
    SelectSeq(data, LAMBDA t : GroupOf(t) = [exception |-> g.exception,
                                             pattern |-> g.pattern])

\* the values of the highest count
MostFrequent(values) ==
    {x \in Range(values) : \A y \in Range(values) : CountIn(values, y) <= CountIn(values, x)}

\* C30 as stated: in the catch-all issue the common_type and common_subtype
\* of an error group are the most frequent type and sub_type among the tasks
\* of that group, so groups of different majority types carry different
\* common_type values.
C30_AsStated ==
    (fpc = "returned" /\ f_ret # Raised) =>
        \A i \in DOMAIN f_ret.value :
            LET g == f_ret.value[i]
                tasks == TasksOfGroup(f_args.data, g)
                types == [k \in DOMAIN tasks |-> tasks[k].type]
                sub_types == SelectSeq([k \in DOMAIN tasks |-> tasks[k].sub_type],
                                       LAMBDA st : st # "")
            IN  /\ g.common_type \in MostFrequent(types)
                /\ IF sub_types = <<>>
                   THEN g.common_subtype = None
                   ELSE /\ g.common_subtype # None
                        /\ g.common_subtype.value \in MostFrequent(sub_types)

====
